---- MODULE Spec2Model ----
(***************************************************************************)
(* A model of the subtitle translation engine of legen:                    *)
(*   translate_utils.py  join_sentences, unjoin_sentences, translate_chunk,*)
(*                       translate_srt_file (the bulk path)                *)
(*   gemini_utils.py     generate_tltw_summary (credential rotation)       *)
(*                                                                         *)
(* Text is modelled as a sequence of one-character strings.  The alphabet  *)
(* stands for the characters the code distinguishes:                       *)
(*   "a" "c"   letters of the source language                              *)
(*   "b" "d"   letters of the target language (Translate maps a->b, c->d)  *)
(*   " "       whitespace                                                  *)
(*   "."       a sentence ending that is also one of the lstrip characters *)
(*   "o"       the soft marker character U+25CC                            *)
(*   "_"       the invisible filler U+3164                                 *)
(*   "~"       the ellipsis U+2026                                         *)
(*   "n"       the newline                                                 *)
(*   "x1" "y1" "x2" "y2" "x3" "y3"   the characters of the hard markers    *)
(* Python's None is the value None below.                                  *)
(***************************************************************************)
EXTENDS Integers, Sequences, FiniteSets, TLC

VARIABLES
    \* ---- the pure text functions (join_sentences / unjoin_sentences)
    pcText,             \* "input" | "joined" | "unjoined"
    lines,              \* argument of join_sentences
    max_chars,          \* argument of join_sentences
    joined_lines,       \* join_sentences' return value
    joined_cues,        \* for each batch, the cue positions appended to it
    batch_index,        \* the batch handed to unjoin_sentences
    original_sentence,  \* argument of unjoin_sentences
    modified_sentence,  \* argument of unjoin_sentences
    unjoined,           \* unjoin_sentences' return value
    \* ---- translate_srt_file (bulk path)
    pcMain,             \* "idle" | "running" | "saved" | "raised"
    provider,           \* per batch, what the provider may do on a call
    srt_file,           \* the cue track of srt_file_path
    subs,               \* the track in memory
    chunks,             \* join_sentences(sub_content, chunk_max_chars)
    translated_chunks,  \* one slot per chunk, None until its task stores
    semaphore,          \* free slots of asyncio.Semaphore(7)
    task_pc,            \* per run_translate task: "start" | "inflight" | "sleep" | "done"
    returned,           \* per task, what its translate_chunk call returned
    out_of_order,       \* a task completed before one of a lower index
    hard_sep_index,     \* _hard_sep_index
    stuck_workers,      \* threads of the default executor held by calls that never return
    unjoined_texts,     \* the flattened list of lines 126-133
    saved_file,         \* the track written to translated_subtitle_path
    \* ---- generate_tltw_summary (gemini_utils.py)
    tl_pc,              \* "idle" | "entry" | "calling" | "returned" | "raised"
    api_keys,           \* normalize_api_keys(config.api_keys)
    text_chunks,        \* len(chunks), the pieces of the subtitle text
    request,            \* the request under way: chunk 1..n, then the synthesis
    key_pos,            \* position in api_keys of the key of the next call
    key_attempt,        \* 1: the full argument list, 2: the reduced one
    calls,              \* the request_func calls made for calls_request
    calls_request,      \* the request the calls belong to
    chunk_summaries,    \* the summaries of the chunks so far
    output_file,        \* what this run wrote to config.output_file, or NoSummary
    tl_result,          \* the summary returned to the caller, or NoSummary
    \* ---- _send_tltw_request (gemini_utils.py)
    sd_pc,              \* "idle" | "first" | "loop" | "returned" | "raised"
    max_rounds,         \* argument
    require_end_marker, \* END_MARKER in base_prompt
    stream_output,      \* argument
    continuation_tail_chars,  \* argument
    full_text,          \* the document so far
    truncated,          \* what the last _generate reported
    rounds,             \* the loop counter
    generations,        \* _generate calls made
    requests,           \* generate_content calls made
    \* ---- one call of a function on drawn arguments
    call_pc,            \* "idle" | the function about to be called | "returned"
    call_args,          \* its arguments
    call_result,        \* its return value
    \* ---- string_width (subtitle_utils.py)
    sw_pc,              \* "idle" | "measuring" | "returned"
    tries_remaining,    \* the loop counter
    string_width_root,  \* _STRING_WIDTH_ROOT: 0 for None, else the number of the root
    font_cache,         \* _FONT_CACHE: for each cached key the root its font was made on
    sw_attempts,        \* measurement attempts made by the call
    sw_result           \* "none" | "measured" | "estimate"

textVars == <<pcText, lines, max_chars, joined_lines, joined_cues, batch_index,
              original_sentence, modified_sentence, unjoined>>

srtVars == <<pcMain, provider, srt_file, subs, chunks, translated_chunks, semaphore,
             task_pc, returned, out_of_order, hard_sep_index, stuck_workers,
             unjoined_texts, saved_file>>

tltwVars == <<tl_pc, api_keys, text_chunks, request, key_pos, key_attempt, calls,
              calls_request, chunk_summaries, output_file, tl_result>>

sendVars == <<sd_pc, max_rounds, require_end_marker, stream_output,
              continuation_tail_chars, full_text, truncated, rounds, generations, requests>>

callVars == <<call_pc, call_args, call_result>>

widthVars == <<sw_pc, tries_remaining, string_width_root, font_cache, sw_attempts, sw_result>>

vars == <<textVars, srtVars, tltwVars, sendVars, callVars, widthVars>>

-----------------------------------------------------------------------------
(* Bounds of the model *)

MaxCues == 3        \* cue texts per join_sentences call
MaxLineLen == 1     \* characters per exhaustively generated cue text
MinChars == 1       \* smallest max_chars tried
MaxChars == 9       \* largest max_chars tried
UMaxCues == 2       \* cue texts per batch handed to unjoin_sentences
MaxTrackCues == 3   \* cues per track handed to translate_srt_file
MaxKeys == 2        \* credentials in api_keys
MaxTextChunks == 2  \* pieces the subtitle text is split into
MaxKeyChars == 3    \* characters of a string handed to normalize_api_keys
MaxKeyItems == 2    \* items of a list handed to normalize_api_keys
MaxSegWords == 3    \* words of a segment handed to split_segments
MaxSegWidth == 8    \* largest max_width_px handed to split_segments
MaxSwitchKeys == 3  \* items of the api_keys handed to MultiKeyGeminiTranslator
ExecutorWorkers == 5 \* threads of the default executor: min(32, cpu_count + 4)
MaxRedistLines == 4 \* lines of a batch whose translation is redistributed
MaxLineWords == 2   \* words per line of such a batch
MaxPoolWords == 6   \* words of its translation
MaxChunkLines == 2  \* cue texts of a batch handed to translate_chunk
MaxWidthChars == 2  \* characters of a text handed to string_width
MaxFontSize == 2    \* largest font_size handed to string_width
MaxWrapChars == 6   \* characters of a text handed to split_string_to_max_lines
MaxWrapLines == 3   \* largest max_lines handed to split_string_to_max_lines
MaxWrapWidth == 4   \* the max_width that is not 0
MaxRounds == 3      \* largest max_rounds handed to _send_tltw_request
MaxTailChars == 1   \* largest continuation_tail_chars
ProbeChars == 2     \* the 200 characters of the overlap probe, scaled
chunk_max_chars == 8  \* 4999 in the source; scaled to the model's cue texts
MaxTransLen == 3    \* characters per generated provider response

-----------------------------------------------------------------------------
(* Python string primitives *)

None == <<"None">>

Max2(a, b) == IF a > b THEN a ELSE b
Min2(a, b) == IF a < b THEN a ELSE b

\* s[i:i+len(p)] == p, i 1-based
MatchAt(s, p, i) ==
    /\ i + Len(p) - 1 <= Len(s)
    /\ \A j \in 1..Len(p) : s[i + j - 1] = p[j]

RECURSIVE ReplaceFrom(_, _, _, _)
ReplaceFrom(s, old, new, i) ==
    IF i > Len(s) THEN <<>>
    ELSE IF MatchAt(s, old, i) THEN new \o ReplaceFrom(s, old, new, i + Len(old))
    ELSE <<s[i]>> \o ReplaceFrom(s, old, new, i + 1)

\* str.replace(old, new): leftmost non-overlapping occurrences, one pass
Replace(s, old, new) == ReplaceFrom(s, old, new, 1)

RECURSIVE CountFrom(_, _, _)
CountFrom(s, sub, i) ==
    IF i > Len(s) THEN 0
    ELSE IF MatchAt(s, sub, i) THEN 1 + CountFrom(s, sub, i + Len(sub))
    ELSE CountFrom(s, sub, i + 1)

\* str.count(sub): non-overlapping occurrences
Count(s, sub) == CountFrom(s, sub, 1)

RECURSIVE SplitFrom(_, _, _, _)
SplitFrom(s, sep, i, cur) ==
    IF i > Len(s) THEN <<cur>>
    ELSE IF MatchAt(s, sep, i) THEN <<cur>> \o SplitFrom(s, sep, i + Len(sep), <<>>)
    ELSE SplitFrom(s, sep, i + 1, Append(cur, s[i]))

\* str.split(sep) with an explicit separator: empty fields are kept
Split(s, sep) == SplitFrom(s, sep, 1, <<>>)

RECURSIVE LStripSet(_, _)
LStripSet(s, chars) ==
    IF s # <<>> /\ Head(s) \in chars THEN LStripSet(Tail(s), chars) ELSE s

RECURSIVE RStripSet(_, _)
RStripSet(s, chars) ==
    IF s # <<>> /\ s[Len(s)] \in chars THEN RStripSet(SubSeq(s, 1, Len(s) - 1), chars) ELSE s

\* " " and the newline "n" are the whitespace of the alphabet
Whitespace == {" ", "n"}

\* str.strip()
Strip(s) == RStripSet(LStripSet(s, Whitespace), Whitespace)

RECURSIVE DropEmpty(_)
\* [s for s in ss if s]
DropEmpty(ss) ==
    IF ss = <<>> THEN <<>>
    ELSE IF Head(ss) # <<>> THEN <<Head(ss)>> \o DropEmpty(Tail(ss))
    ELSE DropEmpty(Tail(ss))

\* str.split() without arguments: the whitespace-separated words
SplitWs(s) == DropEmpty(Split(Replace(s, <<"n">>, <<" ">>), <<" ">>))

\* str.splitlines(): the lines without their newlines, no empty last line
SplitLines(s) ==
    LET parts == Split(s, <<"n">>)
    IN  IF parts[Len(parts)] = <<>> THEN SubSeq(parts, 1, Len(parts) - 1) ELSE parts

RECURSIVE Join(_, _)
\* sep.join(parts)
Join(parts, sep) ==
    IF parts = <<>> THEN <<>>
    ELSE IF Len(parts) = 1 THEN parts[1]
    ELSE parts[1] \o sep \o Join(Tail(parts), sep)

\* s[:e] with Python's treatment of a negative or too large bound
SliceTo(s, e) ==
    LET n  == Len(s)
        e1 == IF e < 0 THEN Max2(n + e, 0) ELSE Min2(e, n)
    IN  SubSeq(s, 1, e1)

\* s[b:e] for 0 <= b
Slice(s, b, e) ==
    LET n  == Len(s)
        e1 == IF e < 0 THEN Max2(n + e, 0) ELSE Min2(e, n)
    IN  SubSeq(s, b + 1, e1)

\* s.rfind(ch, 0, e): the 0-based index of the last ch before position e, or -1
RFind(s, ch, e) ==
    LET n    == Len(s)
        e1   == IF e < 0 THEN Max2(n + e, 0) ELSE Min2(e, n)
        hits == {i \in 1..e1 : s[i] = ch}
    IN  IF hits = {} THEN -1
        ELSE (CHOOSE i \in hits : \A j \in hits : j <= i) - 1

EndsWith(s, ch) == s # <<>> /\ s[Len(s)] = ch

RECURSIVE SumSeq(_)
SumSeq(ns) == IF ns = <<>> THEN 0 ELSE Head(ns) + SumSeq(Tail(ns))

RECURSIVE Concat(_)
\* the concatenation of a sequence of sequences
Concat(ss) == IF ss = <<>> THEN <<>> ELSE Head(ss) \o Concat(Tail(ss))

Range(f) == {f[i] : i \in DOMAIN f}

\* all sequences over S of length at most n
SeqsUpTo(S, n) == UNION {[1..k -> S] : k \in 0..n}

-----------------------------------------------------------------------------
(* translate_utils.py: module constants *)

sentence_endings == {".", "~"}
separator == <<" ", "o", " ">>
separator_unjoin == <<"o">>
filler == <<"_">>
ellipsis == <<"~">>

-----------------------------------------------------------------------------
(* join_sentences *)

\* lines 209-215: a single line that exceeds the limit
TruncatedEndIndex(line, maxc) ==
    LET end_index == RFind(line, " ", maxc - (1 + Len(separator)))
    IN  IF end_index = -(1 + Len(separator))
        THEN maxc - (1 + Len(separator))
        ELSE end_index

TruncatedChunkUncut(line, maxc) ==
    SliceTo(line, TruncatedEndIndex(line, maxc)) \o ellipsis \o separator

TruncatedChunk(line, maxc) ==
    SliceTo(SliceTo(line, TruncatedEndIndex(line, maxc)) \o ellipsis \o separator, maxc)

\* joined_lines.append(current_chunk); current_chunk = ""
FlushDropping(st) == [st EXCEPT !.current = <<>>, !.cur_cues = <<>>]

Flush(st) ==
    [joined   |-> Append(st.joined, st.current),
     cues     |-> Append(st.cues, st.cur_cues),
     current  |-> <<>>,
     cur_cues |-> <<>>]

\* the loop body with a batch closed after every cue that ends a sentence
JoinStepClosingAtSentence(ls, maxc, index, st) ==
    LET line     == IF ls[index] = <<>> THEN filler ELSE ls[index]
        st1      == IF st.current # <<>>
                       /\ Len(st.current) + Len(line) + Len(separator) > maxc
                    THEN Flush(st)
                    ELSE st
        st2      == [st1 EXCEPT !.current = st1.current \o line \o separator,
                                !.cur_cues = Append(st1.cur_cues, index)]
    IN  IF Len(line \o separator) > maxc
        THEN [st1 EXCEPT !.joined = Append(st1.joined, TruncatedChunk(line, maxc)),
                         !.cues   = Append(st1.cues, <<index>>)]
        ELSE IF index = Len(ls) \/ \E e \in sentence_endings : EndsWith(line, e)
             THEN Flush(st2)
             ELSE st2

\* one iteration of the for loop; st = [joined, cues, current, cur_cues], where
\* cues and cur_cues record the positions of the lines put into each batch
JoinStep(ls, maxc, index, st) ==
    LET line     == IF ls[index] = <<>> THEN filler ELSE ls[index]
        addition == line \o separator
        st1      == IF st.current # <<>>
                       /\ Len(st.current) + Len(line) + Len(separator) > maxc
                    THEN Flush(st)
                    ELSE st
        st2      == [st1 EXCEPT !.current = st1.current \o addition,
                                !.cur_cues = Append(st1.cur_cues, index)]
        is_last_line  == index = Len(ls)
        ends_sentence == \E e \in sentence_endings : EndsWith(line, e)
    IN  IF Len(addition) > maxc
        THEN [st1 EXCEPT !.joined = Append(st1.joined, TruncatedChunk(line, maxc)),
                         !.cues   = Append(st1.cues, <<index>>)]
        ELSE IF ~ends_sentence /\ ~is_last_line THEN st2
        ELSE IF is_last_line THEN Flush(st2)
        ELSE LET next_line == IF ls[index + 1] = <<>> THEN filler ELSE ls[index + 1]
                 next_addition_length == Len(next_line) + Len(separator)
             IN  IF Len(st2.current) + next_addition_length > maxc
                 THEN Flush(st2)
                 ELSE st2

RECURSIVE JoinLoop(_, _, _, _)
JoinLoop(ls, maxc, index, st) ==
    IF index > Len(ls) THEN st
    ELSE JoinLoop(ls, maxc, index + 1, JoinStep(ls, maxc, index, st))

\* join_sentences with, beside the batches, the cue positions each batch took
JoinSentencesTraced(ls, maxc) ==
    LET st == JoinLoop(ls, maxc, 1,
                       [joined |-> <<>>, cues |-> <<>>, current |-> <<>>, cur_cues |-> <<>>])
        fin == IF st.current # <<>> THEN Flush(st) ELSE st
    IN  [joined |-> fin.joined, cues |-> fin.cues]

join_sentences(ls, maxc) == JoinSentencesTraced(ls, maxc).joined

-----------------------------------------------------------------------------
(* unjoin_sentences *)

lstrip_chars == {" ", ",", ".", ":", ";", ")"}

\* s.strip().replace('  ', ' ').lstrip(" ,.:;)")
Tidy(s) == LStripSet(Replace(Strip(s), <<" ", " ">>, <<" ">>), lstrip_chars)

RECURSIVE TidyAll(_)
\* [tidy(s) if tidy(s) else s for s in ss if s.strip()]
TidyAll(ss) ==
    IF ss = <<>> THEN <<>>
    ELSE IF Strip(Head(ss)) = <<>> THEN TidyAll(Tail(ss))
    ELSE <<IF Tidy(Head(ss)) # <<>> THEN Tidy(Head(ss)) ELSE Head(ss)>> \o TidyAll(Tail(ss))

RECURSIVE DropBlank(_)
\* [s for s in ss if s.strip()]
DropBlank(ss) ==
    IF ss = <<>> THEN <<>>
    ELSE IF Strip(Head(ss)) # <<>> THEN <<Head(ss)>> \o DropBlank(Tail(ss))
    ELSE DropBlank(Tail(ss))

\* lines 253-257 and 268-272: split, tidy, drop the empty and the blank fields
CleanLines(text, sep) == DropBlank(DropEmpty(TidyAll(Split(text, sep))))

\* lines 263-265: the repair of the spacing around the marker
FixFormat(m) ==
    LET u == separator_unjoin
    IN  Replace(Replace(Replace(Replace(m, u \o <<" ">>, u), <<" ">> \o u, u),
                        u \o <<".">>, <<".">> \o u),
                u \o <<",">>, <<",">> \o u)

\* int(round(p / q)) for p >= 0, q > 0: Python 3 rounds a half to the even side.
\* (The code rounds the float w * (m / o); it equals the exact quotient's
\* rounding for every total below 14 words, which covers the model's bounds.)
\* int(p / q): line 302 without its round()
RoundDown(p, q) == p \div q

RoundHalfEven(p, q) ==
    LET fl == p \div q
        r2 == 2 * (p % q)
    IN  IF r2 < q THEN fl
        ELSE IF r2 > q THEN fl + 1
        ELSE IF fl % 2 = 0 THEN fl ELSE fl + 1

RECURSIVE WordCounts(_)
\* [len(line.strip().split()) for line in ls]
WordCounts(ls) ==
    IF ls = <<>> THEN <<>>
    ELSE <<Len(SplitWs(Strip(Head(ls))))>> \o WordCounts(Tail(ls))

RECURSIVE Redistribute(_, _, _, _, _, _)
\* lines 299-319: the loop over the original lines
Redistribute(original_lines, modified_words, mwc, owc, i, current_index) ==
    IF i > Len(original_lines) THEN <<>>
    ELSE LET num_words == RoundHalfEven(Len(SplitWs(Strip(original_lines[i]))) * mwc, owc)
             generated == Join(Slice(modified_words, Min2(current_index, Len(modified_words)),
                                     current_index + num_words), <<" ">>)
             next_index == current_index + num_words
             tail == Join(Slice(modified_words, Min2(next_index, Len(modified_words)),
                                Len(modified_words)), <<" ">>)
             last == i = Len(original_lines)
             line == IF last /\ tail # <<>>
                     THEN Strip(Join(<<generated, tail>>, <<" ">>))
                     ELSE generated
         IN  <<Strip(Replace(line, <<" ", " ">>, <<" ">>))>>
             \o Redistribute(original_lines, modified_words, mwc, owc, i + 1, next_index)

AsList(v) == [kind |-> "list", val |-> v]
AsStr(v) == [kind |-> "str", val |-> v]

\* "x or ' '" for a list x
OrBlank(ls) == IF ls # <<>> THEN AsList(ls) ELSE AsStr(<<" ">>)

\* lines 282-287: no words on one side: the original text without its markers
ZeroWordsResult(original, sep, original_lines) ==
    AsStr(Replace(Replace(original, sep, <<" ">>), <<" ", " ">>, <<" ">>))

\* unjoin_sentences(original_sentence, modified_sentence, separator); the result
\* is a Python list (kind "list") or a Python str (kind "str")
unjoin_sentences(original, modified, sep) ==
    IF original = None THEN AsStr(<<" ">>)
    ELSE LET original_lines == CleanLines(original, sep)
         IN  IF modified = None THEN OrBlank(original_lines)
             ELSE LET modified_lines == CleanLines(FixFormat(modified), separator_unjoin)
                      owc == SumSeq(WordCounts(original_lines))
                      mwc == Len(SplitWs(Strip(Join(modified_lines, <<" ">>))))
                      modified_words ==
                          Split(Strip(Replace(Replace(Replace(Join(modified_lines, <<" ">>),
                                                              sep, <<>>),
                                                      separator_unjoin, <<>>),
                                              <<" ", " ">>, <<" ">>)),
                                <<" ">>)
                  IN  \* line 275 compares the list with a str and never holds
                      IF Len(original_lines) = Len(modified_lines)
                      THEN AsList(modified_lines)
                      ELSE IF owc = 0 \/ mwc = 0
                      THEN ZeroWordsResult(original, sep, original_lines)
                      ELSE AsList(Redistribute(original_lines, modified_words,
                                               mwc, owc, 1, 0))

\* len(x) of a result
ResultLen(r) == Len(r.val)

-----------------------------------------------------------------------------
(* Validation helpers of translate_chunk *)

hard_separators == << <<"x1", "y1">>, <<"x2", "y2">>, <<"x3", "y3">> >>

count_separators(text) == Count(text, separator)

\* lines 332-335 with "at least" for "exactly"
HasEnoughSeparators(text, expected) ==
    IF expected <= 0 THEN TRUE ELSE Count(text, separator) >= expected

has_exact_separators(text, expected) ==
    IF expected <= 0 THEN TRUE ELSE Count(text, separator) = expected

strip_separators(text) ==
    IF text = <<>> THEN <<>>
    ELSE Strip(Replace(Replace(Replace(text, separator, <<" ">>),
                               separator_unjoin, <<" ">>),
                       <<"o">>, <<" ">>))

\* the length of the common prefix of a and b
RECURSIVE CommonPrefixLen(_, _)
CommonPrefixLen(a, b) ==
    IF a # <<>> /\ b # <<>> /\ Head(a) = Head(b)
    THEN 1 + CommonPrefixLen(Tail(a), Tail(b))
    ELSE 0

\* common_prefix_ratio(a, b) > 0.9, in tenths
CommonPrefixRatioAbove(a, b) ==
    LET length == Min2(Len(a), Len(b))
    IN  length # 0 /\ 10 * CommonPrefixLen(a, b) > 9 * length

\* str.lower() is the identity on the alphabet
is_likely_unchanged(translated, original) ==
    LET clean_t == strip_separators(translated)
        clean_o == strip_separators(original)
    IN  IF clean_t = <<>> \/ clean_o = <<>> THEN FALSE
        ELSE IF clean_t = clean_o THEN TRUE
        ELSE CommonPrefixRatioAbove(clean_t, clean_o)

-----------------------------------------------------------------------------
(* The translation provider (deep_translator's GoogleTranslator.translate)    *)
(* gives no guarantee: a call raises, hangs beyond the 30 s of its wait_for,  *)
(* or answers at once with one of the replies below.                          *)

TranslateChar(ch) == IF ch = "a" THEN "b" ELSE IF ch = "c" THEN "d" ELSE ch

\* the faithful translation: letters translated, everything else kept
Translate(text) == [i \in DOMAIN text |-> TranslateChar(text[i])]

MarkerChars == {"o", "x1", "y1", "x2", "y2", "x3", "y3"}

RECURSIVE KeepChars(_, _)
KeepChars(text, keep) ==
    IF text = <<>> THEN <<>>
    ELSE IF Head(text) \in keep THEN <<Head(text)>> \o KeepChars(Tail(text), keep)
    ELSE KeepChars(Tail(text), keep)

AllChars == {"a", "b", "c", "d", " ", ".", "_", "~", "n"} \cup MarkerChars

Reply(kind, text) ==
    CASE kind = "faithful"     -> Translate(text)
      [] kind = "echo"         -> text
      [] kind = "empty"        -> <<>>
      [] kind = "unmarked"     -> KeepChars(Translate(text), AllChars \ MarkerChars)
      [] kind = "markers_only" -> KeepChars(text, MarkerChars \cup {" "})
      [] kind = "marked"       -> Translate(text) \o separator

ReplyKinds == {"faithful", "echo", "empty", "unmarked", "markers_only"}
\* "hang": no answer within the 30 s; "block": no answer ever
FullProvider == ReplyKinds \cup {"raise", "hang"}
PoolProvider == {"echo", "raise", "hang"}

-----------------------------------------------------------------------------
(* translate_chunk and translate_chunk_per_line.  The provider calls of one  *)
(* translate_chunk touch nothing the other tasks read (the hard marker index *)
(* is its own image under the reservation), so a call of translate_chunk is  *)
(* summarised by the set of its outcomes over all the provider's behaviours. *)
(* Time is counted in seconds: a call that answers takes none, a call that   *)
(* hangs takes the 30 s of its wait_for, and the wait_for of run_translate   *)
(* cancels translate_chunk once 120 s have passed.                           *)

CallTimeout == 30
ChunkTimeout == 120
RetrySleep == 2
HardAttempts == 3
SoftAttempts == 3
ShortChunk == 20

\* an outcome also tells the strategy that was running when the call ended
\* (stage), the provider calls its soft and hard loops had made by then, the
\* positions in hard_separators of the tokens the hard loop used (tokens), and
\* how many of the call's provider calls never return (blocked)
TimedOut(reserved) ==
    [kind |-> "timeout", text |-> <<>>, tier |-> 0, reserved |-> reserved,
     stage |-> 0, soft |-> 0, hard |-> 0, tokens |-> <<>>, blocked |-> 0]
Returned(text, tier, reserved) ==
    [kind |-> "return", text |-> text, tier |-> tier, reserved |-> reserved,
     stage |-> tier, soft |-> 0, hard |-> 0, tokens |-> <<>>, blocked |-> 0]

\* line 151 with one attempt for every batch
MaxAttemptsOnce(chunk) == 1

\* line 151
max_attempts(chunk) ==
    IF Len(strip_separators(chunk)) > ShortChunk THEN SoftAttempts ELSE 1

\* the outcomes that follow a provider call of the given kind
AfterCall(kind, outcomes) ==
    IF kind = "block" THEN {[o EXCEPT !.blocked = @ + 1] : o \in outcomes} ELSE outcomes

RECURSIVE PerLine(_, _, _, _, _)
\* translate_chunk_per_line: ls are the stripped fields of the chunk
PerLine(prov, ls, i, output, elapsed) ==
    IF i > Len(ls) THEN {Returned(Join(output, separator), 3, TRUE)}
    ELSE IF ls[i] = <<>> THEN PerLine(prov, ls, i + 1, Append(output, <<>>), elapsed)
    ELSE UNION { AfterCall(kind,
        IF kind = "raise"
        THEN PerLine(prov, ls, i + 1, Append(output, ls[i]), elapsed)
        ELSE IF kind \in {"hang", "block"}
        THEN IF elapsed + CallTimeout >= ChunkTimeout
             THEN {[TimedOut(TRUE) EXCEPT !.stage = 3]}
             ELSE PerLine(prov, ls, i + 1, Append(output, ls[i]), elapsed + CallTimeout)
        ELSE LET translated == Reply(kind, ls[i])
             IN  PerLine(prov, ls, i + 1,
                         Append(output, IF translated # <<>> THEN translated ELSE ls[i]),
                         elapsed))
        : kind \in prov }

RECURSIVE StripAll(_)
\* [line.strip() for line in ls]
StripAll(ls) == IF ls = <<>> THEN <<>> ELSE <<Strip(Head(ls))>> \o StripAll(Tail(ls))

translate_chunk_per_line(prov, chunk, elapsed) ==
    PerLine(prov, StripAll(Split(chunk, separator)), 1, <<>>, elapsed)

\* the time after an except branch's sleep(2), or the cancellation
AfterFailure(elapsed, kind) ==
    IF kind \in {"hang", "block"} THEN elapsed + CallTimeout + RetrySleep
    ELSE elapsed + RetrySleep

Cancelled(elapsed, kind) ==
    \/ kind \in {"hang", "block"} /\ elapsed + CallTimeout >= ChunkTimeout
    \/ kind \in {"raise", "hang", "block"} /\ AfterFailure(elapsed, kind) >= ChunkTimeout

RECURSIVE HardTier(_, _, _, _, _, _)
\* lines 172-190: the attempts with the hard markers, then the per-line resort
HardTier(prov, chunk, expected, start_idx, i, elapsed) ==
    IF i >= HardAttempts
    THEN {[o EXCEPT !.hard = i] : o \in translate_chunk_per_line(prov, chunk, elapsed)}
    ELSE LET position == (start_idx + i) % Len(hard_separators)
             token == hard_separators[position + 1]
             token_chunk == Replace(chunk, separator, token \o <<" ">>)
             Used(outcomes) == {[o EXCEPT !.tokens = <<position>> \o @] : o \in outcomes}
         IN  Used(UNION { AfterCall(kind,
                IF kind \in {"raise", "hang", "block"}
                THEN IF Cancelled(elapsed, kind)
                     THEN {[TimedOut(TRUE) EXCEPT !.stage = 2, !.hard = i + 1]}
                     ELSE HardTier(prov, chunk, expected, start_idx, i + 1,
                                   AfterFailure(elapsed, kind))
                ELSE LET translated_chunk == Reply(kind, token_chunk)
                         restored == Replace(translated_chunk, token, separator)
                     IN  IF translated_chunk = <<>>
                         THEN HardTier(prov, chunk, expected, start_idx, i + 1, elapsed)
                         ELSE IF has_exact_separators(restored, expected)
                                 /\ ~is_likely_unchanged(restored, chunk)
                         THEN {[Returned(restored, 2, TRUE) EXCEPT !.hard = i + 1]}
                         ELSE HardTier(prov, chunk, expected, start_idx, i + 1, elapsed))
                : kind \in prov })

RECURSIVE SoftTier(_, _, _, _, _, _)
\* lines 157-170: the attempts with the soft marker
SoftTier(prov, chunk, expected, start_idx, attempt, elapsed) ==
    IF attempt >= max_attempts(chunk)
    THEN {[o EXCEPT !.soft = attempt] :
             o \in HardTier(prov, chunk, expected, start_idx, 0, elapsed)}
    ELSE UNION { AfterCall(kind,
            IF kind \in {"raise", "hang", "block"}
            THEN IF Cancelled(elapsed, kind)
                 THEN {[TimedOut(FALSE) EXCEPT !.stage = 1, !.soft = attempt + 1]}
                 ELSE SoftTier(prov, chunk, expected, start_idx, attempt + 1,
                               AfterFailure(elapsed, kind))
            ELSE LET translated_chunk == Reply(kind, chunk)
                 IN  IF translated_chunk = <<>>
                        \/ Len(SplitWs(strip_separators(translated_chunk))) = 0
                     THEN SoftTier(prov, chunk, expected, start_idx, attempt + 1, elapsed)
                     ELSE IF has_exact_separators(translated_chunk, expected)
                             /\ ~is_likely_unchanged(translated_chunk, chunk)
                     THEN {[Returned(translated_chunk, 1, FALSE) EXCEPT !.soft = attempt + 1]}
                     ELSE SoftTier(prov, chunk, expected, start_idx, attempt + 1, elapsed))
            : kind \in prov }

\* the outcomes of wait_for(translate_chunk(index, chunk, lang, expected), 120)
\* with the hard marker index at start_idx when the hard tier reserves
translate_chunk(prov, chunk, expected, start_idx) ==
    SoftTier(prov, chunk, expected, start_idx, 0, 0)

\* a reservation that moves the index by one marker, whatever the count
ReserveOneMarker(index, count) == (index + 1) % Len(hard_separators)

\* reserve_hard_separators(count): the index after the reservation
reserve_hard_separators(index, count) == (index + count) % Len(hard_separators)

-----------------------------------------------------------------------------
(* split_string_to_max_lines as translate_srt_file calls it.  string_width   *)
(* is the font's measure; the model takes every character to be one unit     *)
(* wide (the comparisons of the wrapping loop do not depend on the unit).    *)

string_width(text) == Len(text)

is_punctuation_end(word) ==
    \E punct \in {".", ",", "!", "?", ":", ";"} : EndsWith(word, punct)

RECURSIVE WrapLoop(_, _, _, _, _, _, _)
\* lines 168-186; widths are compared after multiplying by max_lines
WrapLoop(words, i, lns, current_line_words, current_line_width, total, max_lines) ==
    IF i > Len(words) THEN [lns |-> lns, cur |-> current_line_words]
    ELSE LET word == words[i]
             word_width == string_width(word \o <<" ">>)
             n == Len(current_line_words)
             isolated_sentence_ending ==
                 is_punctuation_end(word)
                 /\ ~(n > 0 /\ is_punctuation_end(current_line_words[n]))
             possible_logical_break_point ==
                 n >= 2 /\ Len(current_line_words[n]) <= 3
                 /\ ~(Len(current_line_words[n - 1]) <= 3)
             take == \/ (current_line_width + word_width) * max_lines < total
                     \/ n = 0
                     \/ isolated_sentence_ending
                     \/ possible_logical_break_point
             lns1 == IF take THEN lns ELSE Append(lns, Join(current_line_words, <<" ">>))
             cur1 == IF take THEN Append(current_line_words, word) ELSE <<word>>
             w1   == IF take THEN current_line_width + word_width ELSE word_width
         IN  IF Len(lns1) = max_lines - 1
             THEN [lns |-> Append(lns1, Join(SubSeq(words, i, Len(words)), <<" ">>)),
                   cur |-> cur1]
             ELSE WrapLoop(words, i + 1, lns1, cur1, w1, total, max_lines)

\* lines 156-191 without the closing append of the open line (188-189)
SplitDroppingOpenLine(text, max_width, max_lines) ==
    LET total_text_width == string_width(text)
    IN  IF 10 * total_text_width <= 8 * max_width \/ max_lines < 2 THEN <<text>>
        ELSE WrapLoop(SplitWs(text), 1, <<>>, <<>>, 0, total_text_width, max_lines).lns

RECURSIVE SegLoop(_, _, _, _, _, _)
\* lines 122-142: the loop over the words of one segment; a word is
\* [word, start], a new segment [text, start, words]
SegLoop(words, i, new_segments, current_words, current_width, max_width_px) ==
    IF i > Len(words) THEN [new_segments |-> new_segments, cur |-> current_words]
    ELSE LET word == words[i]
             added_width == string_width(word.word \o <<" ">>)
             n == Len(current_words)
             isolated_sentence_ending ==
                 is_punctuation_end(word.word)
                 /\ ~(n > 0 /\ is_punctuation_end(current_words[n].word))
             possible_logical_break_point ==
                 n >= 2 /\ Len(current_words[n].word) <= 3
                 /\ ~(Len(current_words[n - 1].word) <= 3)
             take == \/ current_width + added_width < max_width_px
                     \/ n = 0
                     \/ isolated_sentence_ending
                     \/ possible_logical_break_point
             closed == [text  |-> Join([k \in 1..n |-> current_words[k].word], <<" ">>),
                        start |-> current_words[1].start,
                        words |-> current_words]
         IN  IF take
             THEN SegLoop(words, i + 1, new_segments, Append(current_words, word),
                          current_width + added_width, max_width_px)
             ELSE SegLoop(words, i + 1, Append(new_segments, closed), <<word>>,
                          added_width, max_width_px)

\* lines 112-153 without the segment of the remaining words (144-151)
SplitSegmentsDroppingRest(segments, max_width_px) ==
    Concat([s \in DOMAIN segments |->
               SegLoop(segments[s].words, 1, <<>>, <<>>, 0, max_width_px).new_segments])

\* subtitle_utils.py lines 112-153
split_segments(segments, max_width_px) ==
    Concat([s \in DOMAIN segments |->
               LET r == SegLoop(segments[s].words, 1, <<>>, <<>>, 0, max_width_px)
                   n == Len(r.cur)
               IN  IF r.cur = <<>> THEN r.new_segments
                   ELSE Append(r.new_segments,
                               [text  |-> Join([k \in 1..n |-> r.cur[k].word], <<" ">>),
                                start |-> r.cur[1].start,
                                words |-> r.cur])])

split_string_to_max_lines(text, max_width, max_lines) ==
    LET total_text_width == string_width(text)
    IN  IF 10 * total_text_width <= 8 * max_width \/ max_lines < 2 THEN <<text>>
        ELSE LET r == WrapLoop(SplitWs(text), 1, <<>>, <<>>, 0, total_text_width, max_lines)
             IN  IF r.cur # <<>> /\ Len(r.lns) < max_lines
                 THEN Append(r.lns, Join(r.cur, <<" ">>))
                 ELSE r.lns

-----------------------------------------------------------------------------
(* translate_srt_file, the bulk path *)

SemaphoreSlots == 7

\* line 52
SubContent(track) ==
    [i \in DOMAIN track |-> Join(SplitLines(Strip(track[i].text)), <<" ">>)]

\* the items a for loop draws from a result: the elements of a list, the
\* characters of a str ("x or ''" leaves both as they are)
Items(r) == IF r.kind = "list" THEN r.val ELSE [i \in DOMAIN r.val |-> <<r.val[i]>>]

\* lines 126-128
UnjoinAll(chs, tchunks) ==
    Concat([k \in DOMAIN chs |->
                Items(unjoin_sentences(chs[k], tchunks[k], separator_unjoin))])

\* lines 131-133 for one segment
Rewrap(segment, cue) ==
    Join(split_string_to_max_lines(segment, 0, Len(SplitLines(cue.text))), <<"n">>)

\* lines 136-137: sub.text = unjoined_texts[i], as far as the texts reach
AssignTextsToFirstCue(track, texts) ==
    [i \in DOMAIN track |->
        IF i <= Len(texts) THEN [track[1] EXCEPT !.text = texts[i]] ELSE track[i]]

AssignTexts(track, texts) ==
    [i \in DOMAIN track |->
        IF i <= Len(texts) THEN [track[i] EXCEPT !.text = texts[i]] ELSE track[i]]

\* line 102: "async with semaphore" enters only while a slot is free
CanAcquireUnbounded(sem) == sem >= 0

CanAcquire(sem) == sem > 0

\* line 105: translated_chunks[index] = result
StoreResultByCompletion(tchunks, index, result) ==
    LET free == {k \in DOMAIN tchunks : tchunks[k] = None}
    IN  [tchunks EXCEPT ![CHOOSE k \in free : \A j \in free : k <= j] = result]

StoreResult(tchunks, index, result) == [tchunks EXCEPT ![index] = result]

-----------------------------------------------------------------------------
(* The text functions as a state machine: the arguments are drawn in Init *)

LineAlphabet == {"a", " ", "."}
\* every short text, and longer ones with and without a word boundary
LongLines == { <<"a", "a", "a", "a", "a">>,
               <<"a", " ", "a", "a", ".">>,
               <<"a", "a", " ", "a", "a", "a">> }
LineTexts == SeqsUpTo(LineAlphabet, MaxLineLen) \cup LongLines
LineLists == SeqsUpTo(LineTexts, MaxCues)

\* the cue texts of the batches handed to unjoin_sentences
UnjoinTexts == { <<>>, <<"a">>, <<"a", ".">>, <<"a", " ", "a">>, <<".", "a">> }
TransAlphabet == {"b", " ", "o", "."}
Translations == SeqsUpTo(TransAlphabet, MaxTransLen) \cup {None}

IdleText ==
    /\ pcText = "idle"
    /\ lines = <<>>
    /\ max_chars = 0
    /\ joined_lines = <<>>
    /\ joined_cues = <<>>
    /\ batch_index = 0
    /\ original_sentence = None
    /\ modified_sentence = None
    /\ unjoined = None

IdleSrt ==
    /\ pcMain = "idle"
    /\ provider = <<>>
    /\ srt_file = <<>>
    /\ subs = <<>>
    /\ chunks = <<>>
    /\ translated_chunks = <<>>
    /\ semaphore = SemaphoreSlots
    /\ task_pc = <<>>
    /\ returned = <<>>
    /\ out_of_order = FALSE
    /\ hard_sep_index = 0
    /\ stuck_workers = 0
    /\ unjoined_texts = <<>>
    /\ saved_file = None

\* no summary: nothing returned to the caller, nothing written to the file
NoSummary == [request |-> 0, key |-> 0]

IdleTltw ==
    /\ tl_pc = "idle"
    /\ api_keys = <<>>
    /\ text_chunks = 0
    /\ request = 0
    /\ key_pos = 0
    /\ key_attempt = 0
    /\ calls = <<>>
    /\ calls_request = 0
    /\ chunk_summaries = <<>>
    /\ output_file = NoSummary
    /\ tl_result = NoSummary

\* _send_tltw_request, string_width and the single calls are not under way
IdleRest ==
    /\ sd_pc = "idle"
    /\ max_rounds = 0
    /\ require_end_marker = FALSE
    /\ stream_output = FALSE
    /\ continuation_tail_chars = 0
    /\ full_text = <<>>
    /\ truncated = FALSE
    /\ rounds = 0
    /\ generations = 0
    /\ requests = 0
    /\ call_pc = "idle"
    /\ call_args = <<>>
    /\ call_result = <<>>
    /\ sw_pc = "idle"
    /\ tries_remaining = 0
    /\ string_width_root = 0
    /\ font_cache = <<>>
    /\ sw_attempts = 0
    /\ sw_result = "none"

InitJoin ==
    /\ pcText = "input"
    /\ lines \in LineLists
    /\ max_chars \in MinChars..MaxChars
    /\ joined_lines = <<>>
    /\ joined_cues = <<>>
    /\ batch_index = 0
    /\ original_sentence = None
    /\ modified_sentence = None
    /\ unjoined = None
    /\ IdleSrt
    /\ IdleTltw /\ IdleRest

InitUnjoin ==
    /\ pcText = "input"
    /\ lines \in SeqsUpTo(UnjoinTexts, UMaxCues)
    /\ max_chars \in {MaxChars, MaxChars * UMaxCues}
    /\ joined_lines = <<>>
    /\ joined_cues = <<>>
    /\ batch_index = 0
    /\ original_sentence = None
    /\ modified_sentence = None
    /\ unjoined = None
    /\ IdleSrt
    /\ IdleTltw /\ IdleRest

CallJoinSentences ==
    /\ pcText = "input"
    /\ LET r == JoinSentencesTraced(lines, max_chars)
       IN  /\ joined_lines' = r.joined
           /\ joined_cues' = r.cues
    /\ pcText' = "joined"
    /\ UNCHANGED <<lines, max_chars, batch_index, original_sentence,
                   modified_sentence, unjoined>>
    /\ UNCHANGED <<srtVars, tltwVars, sendVars, callVars, widthVars>>

\* unjoin_sentences(chunk, translated, separator_unjoin) on a batch of the call
\* above; the translation is a drawn text, None, or the batch itself
CallUnjoinSentences ==
    /\ pcText = "joined"
    /\ \E k \in DOMAIN joined_lines : \E t \in Translations \cup {joined_lines[k]} :
          /\ batch_index' = k
          /\ original_sentence' = joined_lines[k]
          /\ modified_sentence' = t
          /\ unjoined' = unjoin_sentences(joined_lines[k], t, separator_unjoin)
    /\ pcText' = "unjoined"
    /\ UNCHANGED <<lines, max_chars, joined_lines, joined_cues>>
    /\ UNCHANGED <<srtVars, tltwVars, sendVars, callVars, widthVars>>

-----------------------------------------------------------------------------
(* translate_srt_file as a state machine.  Init is the state after line 95:  *)
(* the track loaded, the chunks made, one task per chunk about to start.     *)

Cue(i, text) == [index |-> i, start |-> 2 * i - 1, end |-> 2 * i, text |-> text]
Track(texts) == [i \in DOMAIN texts |-> Cue(i, texts[i])]

\* one-line cues, an empty cue and a two-line cue
SrtCueTexts == { <<"a">>, <<>>, <<"c", ".", "n", "a">> }
SrtTracks == {Track(texts) : texts \in SeqsUpTo(SrtCueTexts, MaxTrackCues)}

\* two more chunks than the semaphore has slots
PoolTrack == Track([i \in 1..(SemaphoreSlots + 2) |-> <<"a", " ", "c">>])

ChunksOf(track) == join_sentences(SubContent(track), chunk_max_chars)

\* translate_chunk's outcomes for every chunk the tracks give, computed once
OutcomesFull ==
    [c \in UNION {Range(ChunksOf(t)) : t \in SrtTracks} |->
        [s \in 0..(Len(hard_separators) - 1) |->
            translate_chunk(FullProvider, c, count_separators(c), s)]]

OutcomesPool ==
    [prov \in {PoolProvider, {"faithful"}, {"block"}, {"hang"}} |->
        [c \in Range(ChunksOf(PoolTrack)) |->
            [s \in 0..(Len(hard_separators) - 1) |->
                translate_chunk(prov, c, count_separators(c), s)]]]

Outcomes(prov, chunk, start_idx) ==
    IF prov = FullProvider THEN OutcomesFull[chunk][start_idx]
    ELSE OutcomesPool[prov][chunk][start_idx]

StartOn(track, provs) ==
    /\ pcMain = "running"
    /\ provider = provs
    /\ srt_file = track
    /\ subs = track
    /\ chunks = ChunksOf(track)
    /\ translated_chunks = [k \in DOMAIN ChunksOf(track) |-> None]
    /\ semaphore = SemaphoreSlots
    /\ task_pc = [k \in DOMAIN ChunksOf(track) |-> "start"]
    /\ returned = [k \in DOMAIN ChunksOf(track) |-> None]
    /\ out_of_order = FALSE
    /\ hard_sep_index = 0
    /\ stuck_workers = 0
    /\ unjoined_texts = <<>>
    /\ saved_file = None

InitSrt ==
    /\ IdleText /\ IdleTltw /\ IdleRest
    /\ \E track \in SrtTracks :
          StartOn(track, [k \in DOMAIN ChunksOf(track) |-> FullProvider])

InitPool ==
    /\ IdleText /\ IdleTltw /\ IdleRest
    /\ StartOn(PoolTrack, [k \in DOMAIN ChunksOf(PoolTrack) |-> PoolProvider])

\* as many batches as the semaphore has slots get no answer ever, the batches
\* after them get a faithful translation from every call that is started
InitStuck ==
    /\ IdleText /\ IdleTltw /\ IdleRest
    /\ StartOn(PoolTrack, [k \in DOMAIN ChunksOf(PoolTrack) |->
                              IF k <= SemaphoreSlots THEN {"block"} ELSE {"faithful"}])

\* lines 154-155: translator.translate runs on a thread of the loop's default
\* executor.  wait_for gives the call up after 30 s but cannot stop its thread,
\* so a call that never returns holds its worker for good, and once every
\* worker is held a new call is never started and only its wait_for ends
CallsOf(k) == IF stuck_workers >= ExecutorWorkers THEN {"hang"} ELSE provider[k]

\* "async with semaphore": the task takes a slot and calls translate_chunk
Acquire(k) ==
    /\ pcMain = "running"
    /\ k \in DOMAIN task_pc
    /\ task_pc[k] = "start"
    /\ CanAcquire(semaphore)
    /\ semaphore' = semaphore - 1
    /\ task_pc' = [task_pc EXCEPT ![k] = "inflight"]
    /\ UNCHANGED <<pcMain, provider, srt_file, subs, chunks, translated_chunks, returned,
                   out_of_order, hard_sep_index, stuck_workers, unjoined_texts, saved_file>>
    /\ UNCHANGED <<textVars, tltwVars, sendVars, callVars, widthVars>>

\* translate_chunk returns within the 120 s: the slot is released, the result stored
CompleteReturn(k) ==
    /\ pcMain = "running"
    /\ k \in DOMAIN task_pc
    /\ task_pc[k] = "inflight"
    /\ \E o \in Outcomes(CallsOf(k), chunks[k], hard_sep_index) :
          /\ o.kind = "return"
          /\ stuck_workers' = Min2(ExecutorWorkers, stuck_workers + o.blocked)
          /\ translated_chunks' = StoreResult(translated_chunks, k, o.text)
          /\ returned' = [returned EXCEPT ![k] = o.text]
          /\ hard_sep_index' = IF o.reserved
                               THEN reserve_hard_separators(hard_sep_index, HardAttempts)
                               ELSE hard_sep_index
    /\ semaphore' = semaphore + 1
    /\ task_pc' = [task_pc EXCEPT ![k] = "done"]
    /\ out_of_order' = (out_of_order \/ \E j \in 1..(k - 1) : task_pc[j] # "done")
    /\ UNCHANGED <<pcMain, provider, srt_file, subs, chunks, unjoined_texts, saved_file>>
    /\ UNCHANGED <<textVars, tltwVars, sendVars, callVars, widthVars>>

\* the wait_for of line 104 cancels translate_chunk: the slot is released and
\* the task goes to sleep(3) in its except branch
CompleteTimeout(k) ==
    /\ pcMain = "running"
    /\ k \in DOMAIN task_pc
    /\ task_pc[k] = "inflight"
    /\ \E o \in Outcomes(CallsOf(k), chunks[k], hard_sep_index) :
          /\ o.kind = "timeout"
          /\ stuck_workers' = Min2(ExecutorWorkers, stuck_workers + o.blocked)
          /\ hard_sep_index' = IF o.reserved
                               THEN reserve_hard_separators(hard_sep_index, HardAttempts)
                               ELSE hard_sep_index
    /\ semaphore' = semaphore + 1
    /\ task_pc' = [task_pc EXCEPT ![k] = "sleep"]
    /\ UNCHANGED <<pcMain, provider, srt_file, subs, chunks, translated_chunks, returned,
                   out_of_order, unjoined_texts, saved_file>>
    /\ UNCHANGED <<textVars, tltwVars, sendVars, callVars, widthVars>>

\* the sleep(3) ends: "Restart task"
Restart(k) ==
    /\ pcMain = "running"
    /\ k \in DOMAIN task_pc
    /\ task_pc[k] = "sleep"
    /\ task_pc' = [task_pc EXCEPT ![k] = "start"]
    /\ UNCHANGED <<pcMain, provider, srt_file, subs, chunks, translated_chunks, semaphore,
                   returned, out_of_order, hard_sep_index, stuck_workers, unjoined_texts,
                   saved_file>>
    /\ UNCHANGED <<textVars, tltwVars, sendVars, callVars, widthVars>>

\* lines 123-141 once every task is done: unjoin, rewrap, assign, save.  The
\* loop of line 131 raises IndexError when there are more texts than cues, the
\* loop of line 136 when there are fewer; nothing is saved then.
Postprocess ==
    /\ pcMain = "running"
    /\ \A k \in DOMAIN task_pc : task_pc[k] = "done"
    /\ LET texts == UnjoinAll(chunks, translated_chunks)
       IN  IF Len(texts) > Len(subs)
           THEN /\ unjoined_texts' = texts
                /\ pcMain' = "raised"
                /\ UNCHANGED <<subs, saved_file>>
           ELSE LET wrapped == [i \in DOMAIN texts |-> Rewrap(texts[i], subs[i])]
                    assigned == AssignTexts(subs, wrapped)
                IN  /\ unjoined_texts' = wrapped
                    /\ subs' = assigned
                    /\ IF Len(texts) < Len(subs)
                       THEN pcMain' = "raised" /\ UNCHANGED saved_file
                       ELSE pcMain' = "saved" /\ saved_file' = assigned
    /\ UNCHANGED <<provider, srt_file, chunks, translated_chunks, semaphore, task_pc,
                   returned, out_of_order, hard_sep_index, stuck_workers>>
    /\ UNCHANGED <<textVars, tltwVars, sendVars, callVars, widthVars>>

NextSrt ==
    \/ \E k \in DOMAIN task_pc : Acquire(k)
    \/ \E k \in DOMAIN task_pc : CompleteReturn(k)
    \/ \E k \in DOMAIN task_pc : CompleteTimeout(k)
    \/ \E k \in DOMAIN task_pc : Restart(k)
    \/ Postprocess

NextJoin == CallJoinSentences

NextUnjoin == CallJoinSentences \/ CallUnjoinSentences

SpecJoin == InitJoin /\ [][NextJoin]_vars

SpecUnjoin == InitUnjoin /\ [][NextUnjoin]_vars

SpecSrt == InitSrt /\ [][NextSrt]_vars

SpecPool == InitPool /\ [][NextSrt]_vars

\* the event loop runs every batch task that can take a step
FairSrt ==
    /\ InitSrt
    /\ [][NextSrt]_vars
    /\ \A k \in 1..MaxTrackCues :
          /\ WF_vars(Acquire(k))
          /\ WF_vars(CompleteReturn(k) \/ CompleteTimeout(k))
          /\ WF_vars(Restart(k))

\* the tasks of translate_async up to the last completion; the semaphore
\* wakes its waiters in the order of their arrival
FairStuck ==
    /\ InitStuck
    /\ [][\/ \E k \in DOMAIN task_pc : Acquire(k)
          \/ \E k \in DOMAIN task_pc : CompleteReturn(k)
          \/ \E k \in DOMAIN task_pc : CompleteTimeout(k)
          \/ \E k \in DOMAIN task_pc : Restart(k)]_vars
    /\ \A k \in 1..(SemaphoreSlots + 2) :
          SF_vars(Acquire(k) \/ CompleteReturn(k) \/ CompleteTimeout(k) \/ Restart(k))

-----------------------------------------------------------------------------
(* gemini_utils.py: generate_tltw_summary.  request_func is the caller's: a  *)
(* call returns a summary, raises TypeError or raises another Exception.     *)
(* Writing the output file succeeds or raises OSError.  One action is one    *)
(* call of request_func with all that follows it up to the next call.        *)

RequestOutcomes == {"ok", "type_error", "error"}

WriteOutcomes == {"written", "os_error"}

\* api_keys after normalize_api_keys: stripped, non-empty, without duplicates
KeyLists == {ks \in SeqsUpTo(1..MaxKeys, MaxKeys) :
                \A i, j \in DOMAIN ks : i # j => ks[i] # ks[j]}

\* the summary a successful call returns, as _strip_end_marker leaves it
Summary(req, key) == [request |-> req, key |-> key]

\* lines 760 and 767: one chunk is summarised with the final prompt at once,
\* several chunks are followed by the final synthesis
LastRequest(n) == IF n = 1 THEN 1 ELSE n + 1

\* "except TypeError" around the first call only: the call is repeated with
\* the reduced argument list and the same key
FallsBackOnAnyError(outcome, att) == outcome # "ok" /\ att = 1

FallsBack(outcome, att) == outcome = "type_error" /\ att = 1

\* "continue" in the for loop over api_keys, and the raise after the loop
RotateKeyWrapping(keys, pos) ==
    IF pos < Len(keys)
    THEN [pc |-> "calling", key_pos |-> pos + 1]
    ELSE [pc |-> "calling", key_pos |-> 1]

RotateKey(keys, pos) ==
    IF pos < Len(keys)
    THEN [pc |-> "calling", key_pos |-> pos + 1]
    ELSE [pc |-> "raised", key_pos |-> pos]

InitTltw ==
    /\ IdleText
    /\ IdleSrt
    /\ IdleRest
    /\ tl_pc = "entry"
    /\ api_keys \in KeyLists
    /\ text_chunks \in 1..MaxTextChunks
    /\ request = 0
    /\ key_pos = 0
    /\ key_attempt = 0
    /\ calls = <<>>
    /\ calls_request = 0
    /\ chunk_summaries = <<>>
    /\ output_file = NoSummary
    /\ tl_result = NoSummary

\* lines 671-709: no key raises ValueError; otherwise the first request starts
TltwEnter ==
    /\ tl_pc = "entry"
    /\ IF api_keys = <<>>
       THEN /\ tl_pc' = "raised"
            /\ UNCHANGED <<request, key_pos, key_attempt>>
       ELSE /\ tl_pc' = "calling"
            /\ request' = 1
            /\ key_pos' = 1
            /\ key_attempt' = 1
    /\ UNCHANGED <<api_keys, text_chunks, calls, calls_request, chunk_summaries,
                   output_file, tl_result>>
    /\ UNCHANGED <<textVars, srtVars, sendVars, callVars, widthVars>>

\* the failure of the key at key_pos: the next key, or RuntimeError
TltwRotate ==
    LET r == RotateKey(api_keys, key_pos)
    IN  /\ tl_pc' = r.pc
        /\ key_pos' = r.key_pos
        /\ key_attempt' = 1
        /\ UNCHANGED <<request, chunk_summaries, output_file, tl_result>>

\* one call of request_func: lines 711-758 for a chunk or the single request,
\* lines 779-830 for the final synthesis, whose write is inside the try
TltwCall ==
    /\ tl_pc = "calling"
    /\ \E outcome \in RequestOutcomes, w \in WriteOutcomes :
          LET key == api_keys[key_pos]
              written == outcome = "ok" /\ request = LastRequest(text_chunks)
                                        /\ w = "written"
              call == [request |-> request, pos |-> key_pos, key |-> key,
                       attempt |-> key_attempt, outcome |-> outcome, written |-> written]
          IN  /\ calls' = IF calls_request = request THEN Append(calls, call)
                                                     ELSE <<call>>
              /\ calls_request' = request
              /\ IF outcome = "ok"
                 THEN IF request < LastRequest(text_chunks)
                      THEN \* line 772: the chunk's summary is kept, the next request starts
                           /\ chunk_summaries' = Append(chunk_summaries, Summary(request, key))
                           /\ request' = request + 1
                           /\ key_pos' = 1
                           /\ key_attempt' = 1
                           /\ UNCHANGED <<tl_pc, output_file, tl_result>>
                      ELSE IF written
                      THEN \* lines 763-765 and 819-821
                           /\ output_file' = Summary(request, key)
                           /\ tl_result' = Summary(request, key)
                           /\ tl_pc' = "returned"
                           /\ UNCHANGED <<request, key_pos, key_attempt, chunk_summaries>>
                      ELSE IF text_chunks = 1
                      THEN \* lines 763-764 are outside any try: OSError reaches the caller
                           /\ tl_pc' = "raised"
                           /\ UNCHANGED <<request, key_pos, key_attempt, chunk_summaries,
                                          output_file, tl_result>>
                      ELSE \* lines 819-822: "except Exception" takes the OSError
                           TltwRotate
                 ELSE IF FallsBack(outcome, key_attempt)
                      THEN /\ key_attempt' = 2
                           /\ UNCHANGED <<tl_pc, request, key_pos, chunk_summaries,
                                          output_file, tl_result>>
                      ELSE TltwRotate
    /\ UNCHANGED <<api_keys, text_chunks>>
    /\ UNCHANGED <<textVars, srtVars, sendVars, callVars, widthVars>>

NextTltw == TltwEnter \/ TltwCall

SpecTltw == InitTltw /\ [][NextTltw]_vars

-----------------------------------------------------------------------------
(* gemini_utils.py: _send_tltw_request.  The end marker "<!-- END -->" is    *)
(* the two characters "<" ">"; "a" is an alphanumeric character.  The        *)
(* provider answers a generate_content call with a text and a finish reason, *)
(* or raises; a streamed call that raises is repeated without streaming.     *)

END_MARKER == <<"<", ">">>

\* the stripped texts the provider may answer with; an empty one raises
GenReplies == { <<"a">>, <<"<">>, <<">">>, <<"<", ">">>, <<"a", "<">> }

\* _generate, lines 446-565: the text with the truncation flag, or an exception,
\* and the number of generate_content calls it took
GenerateOutcomes(stream, require) ==
    LET made == IF stream THEN {1, 2} ELSE {1}
    IN  {[kind |-> "raise", text |-> <<>>, truncated |-> FALSE, requests |-> n] : n \in made}
        \cup {[kind |-> "return", text |-> t,
               truncated |-> finish \/ (require /\ Count(t, END_MARKER) = 0),
               requests |-> n] : t \in GenReplies, finish \in BOOLEAN, n \in made}

\* lines 606-631: the continuation joined to the document, or no progress
MergeContinuation(left, next_text, tail_chars) ==
    LET LastChars(t, n) == SubSeq(t, Max2(1, Len(t) - n + 1), Len(t))
        tail == IF tail_chars <= 0 THEN left ELSE LastChars(left, tail_chars)
        probe == LastChars(tail, ProbeChars)
        hits == {i \in 1..Len(next_text) : MatchAt(next_text, probe, i)}
        pos == CHOOSE i \in hits : \A j \in hits : i <= j
        overlap_trimmed ==
            IF tail # <<>> /\ next_text # <<>> /\ hits # {}
            THEN LStripSet(SubSeq(next_text, pos + Len(probe), Len(next_text)), Whitespace)
            ELSE next_text
        right == Strip(overlap_trimmed)
        alnum(ch) == ch = "a"
        sep == IF left # <<>> /\ right # <<>> /\ alnum(left[Len(left)]) /\ alnum(right[1])
               THEN <<" ">> ELSE <<>>
    IN  IF overlap_trimmed = <<>>
        THEN [progress |-> FALSE, text |-> left]
        ELSE [progress |-> TRUE,
              text |-> Strip(RStripSet(left, Whitespace) \o sep \o right)]

\* line 582: while truncated and rounds < max_rounds
LoopsOnPastBudget(trunc, n, budget) == trunc /\ n <= budget

LoopsOn(trunc, n, budget) == trunc /\ n < budget

\* lines 639-645: after the loop
FinishUnchecked(text, require) == "returned"

Finish(text, require) ==
    IF require /\ Count(text, END_MARKER) = 0 THEN "raised" ELSE "returned"

InitSend ==
    /\ IdleText /\ IdleSrt /\ IdleTltw
    /\ sd_pc = "first"
    /\ max_rounds \in 0..MaxRounds
    /\ require_end_marker \in BOOLEAN
    /\ stream_output \in BOOLEAN
    /\ continuation_tail_chars \in 0..MaxTailChars
    /\ full_text = <<>>
    /\ truncated = FALSE
    /\ rounds = 0
    /\ generations = 0
    /\ requests = 0
    /\ call_pc = "idle" /\ call_args = <<>> /\ call_result = <<>>
    /\ sw_pc = "idle" /\ tries_remaining = 0 /\ string_width_root = 0
    /\ font_cache = <<>> /\ sw_attempts = 0 /\ sw_result = "none"

\* lines 567-579: the first _generate
SendFirst ==
    /\ sd_pc = "first"
    /\ \E g \in GenerateOutcomes(stream_output, require_end_marker) :
          /\ generations' = generations + 1
          /\ requests' = requests + g.requests
          /\ IF g.kind = "raise"
             THEN /\ sd_pc' = "raised"
                  /\ UNCHANGED <<full_text, truncated, rounds>>
             ELSE /\ full_text' = g.text
                  /\ truncated' = g.truncated
                  /\ IF require_end_marker /\ Count(g.text, END_MARKER) > 0
                     THEN sd_pc' = "returned" /\ UNCHANGED rounds
                     ELSE /\ rounds' = 1
                          /\ sd_pc' = IF LoopsOn(g.truncated, 1, max_rounds)
                                      THEN "loop"
                                      ELSE Finish(g.text, require_end_marker)
    /\ UNCHANGED <<max_rounds, require_end_marker, stream_output, continuation_tail_chars>>
    /\ UNCHANGED <<textVars, srtVars, tltwVars, callVars, widthVars>>

\* lines 583-637: one turn of the continuation loop
SendContinuation ==
    /\ sd_pc = "loop"
    /\ \E g \in GenerateOutcomes(stream_output, require_end_marker) :
          /\ generations' = generations + 1
          /\ requests' = requests + g.requests
          /\ IF g.kind = "raise"
             THEN /\ sd_pc' = "raised"
                  /\ UNCHANGED <<full_text, truncated, rounds>>
             ELSE LET m == MergeContinuation(full_text, g.text, continuation_tail_chars)
                  IN  /\ full_text' = m.text
                      /\ truncated' = g.truncated
                      /\ IF ~m.progress
                         THEN sd_pc' = Finish(m.text, require_end_marker) /\ UNCHANGED rounds
                         ELSE IF require_end_marker /\ Count(m.text, END_MARKER) > 0
                         THEN sd_pc' = "returned" /\ UNCHANGED rounds
                         ELSE /\ rounds' = rounds + 1
                              /\ sd_pc' = IF LoopsOn(g.truncated, rounds + 1, max_rounds)
                                          THEN "loop"
                                          ELSE Finish(m.text, require_end_marker)
    /\ UNCHANGED <<max_rounds, require_end_marker, stream_output, continuation_tail_chars>>
    /\ UNCHANGED <<textVars, srtVars, tltwVars, callVars, widthVars>>

\* a generate_content call returns or raises within request_timeout
SpecSend ==
    /\ InitSend
    /\ [][SendFirst \/ SendContinuation]_vars
    /\ WF_vars(SendFirst \/ SendContinuation)

-----------------------------------------------------------------------------
(* string_width with its module globals.  string_width_root is 0 for None    *)
(* and the number of the Tk object otherwise; font_cache holds, for the one  *)
(* cache key of a run, the number of the root its font was built on.         *)
(* call_args holds the arguments of the call in progress and call_result the *)
(* returned width, in tenths of a unit, as its one element.                  *)

MaxTries == 5

\* the except branch without the call of line 99
KeepRoot(root) == root

\* _destroy_string_width_root, lines 14-22: destroy() may raise, the raise is
\* swallowed, and the global is None afterwards
destroy_string_width_root(root) == 0

InitWidth ==
    /\ IdleText /\ IdleSrt /\ IdleTltw
    /\ sd_pc = "idle" /\ max_rounds = 0 /\ require_end_marker = FALSE
    /\ stream_output = FALSE /\ continuation_tail_chars = 0 /\ full_text = <<>>
    /\ truncated = FALSE /\ rounds = 0 /\ generations = 0 /\ requests = 0
    /\ call_pc = "idle" /\ call_args = <<>> /\ call_result = <<>>
    /\ sw_pc = "idle" /\ tries_remaining = 0 /\ string_width_root = 0
    /\ font_cache = <<>> /\ sw_attempts = 0 /\ sw_result = "none"

\* line 87 and line 91: a call, the first or a later one of the process
StringWidthCall ==
    /\ sw_pc \in {"idle", "done"}
    /\ \E t \in SeqsUpTo({"a"}, MaxWidthChars), size \in 1..MaxFontSize :
          call_args' = [fn |-> "string_width", text |-> t, font_size |-> size]
    /\ tries_remaining' = MaxTries
    /\ sw_attempts' = 0 /\ sw_result' = "none" /\ call_result' = <<>>
    /\ sw_pc' = "loop"
    /\ UNCHANGED <<string_width_root, font_cache, call_pc>>
    /\ UNCHANGED <<textVars, srtVars, tltwVars, sendVars>>

\* lines 93-96 with _ensure_string_width_font lines 27-30: the try is entered
\* and the root is made when there is none; tk.Tk() or withdraw() may raise
StringWidthEnsureRoot ==
    /\ sw_pc = "loop" /\ tries_remaining > 0
    /\ tries_remaining' = tries_remaining - 1
    /\ sw_attempts' = sw_attempts + 1
    /\ LET fresh == IF font_cache = <<>> THEN 1 ELSE font_cache[1] + 1
       IN  \/ /\ string_width_root # 0
              /\ sw_pc' = "measure"
              /\ UNCHANGED string_width_root
           \/ /\ string_width_root = 0
              /\ \/ /\ string_width_root' = fresh         \* both succeed
                    /\ sw_pc' = "measure"
                 \/ /\ string_width_root' = destroy_string_width_root(fresh)
                    /\ sw_pc' = "loop"                    \* withdraw() raises
                 \/ /\ string_width_root' = destroy_string_width_root(0)
                    /\ sw_pc' = "loop"                    \* tk.Tk() raises
    /\ UNCHANGED <<font_cache, sw_result, callVars>>
    /\ UNCHANGED <<textVars, srtVars, tltwVars, sendVars>>

\* lines 32-37 and 96-100: the font comes from the cache or is built on the
\* root and cached; building and measuring may raise, and then the root is
\* destroyed; the cache is left as it is
StringWidthMeasure ==
    /\ sw_pc = "measure"
    /\ \/ /\ font_cache' = IF font_cache = <<>> THEN <<string_width_root>> ELSE font_cache
          /\ \/ /\ sw_result' = "measured"
                /\ call_result' = <<10 * string_width(call_args.text)>>
                /\ sw_pc' = "done"
                /\ UNCHANGED string_width_root
             \/ /\ string_width_root' = destroy_string_width_root(string_width_root)
                /\ sw_pc' = "loop"                        \* measure raises
                /\ UNCHANGED <<sw_result, call_result>>
       \/ /\ font_cache = <<>>                            \* Font() raises
          /\ string_width_root' = destroy_string_width_root(string_width_root)
          /\ sw_pc' = "loop"
          /\ UNCHANGED <<font_cache, sw_result, call_result>>
    /\ UNCHANGED <<tries_remaining, sw_attempts, call_pc, call_args>>
    /\ UNCHANGED <<textVars, srtVars, tltwVars, sendVars>>

\* lines 92 and 103-104: the loop is left and the estimate returned
StringWidthEstimate ==
    /\ sw_pc = "loop" /\ tries_remaining <= 0
    /\ sw_result' = "estimate"
    /\ call_result' = <<Len(call_args.text) * call_args.font_size * 6>>
    /\ sw_pc' = "done"
    /\ UNCHANGED <<tries_remaining, string_width_root, font_cache, sw_attempts,
                   call_pc, call_args>>
    /\ UNCHANGED <<textVars, srtVars, tltwVars, sendVars>>

\* Tk calls return or raise; a started call of string_width keeps running
SpecWidth ==
    /\ InitWidth
    /\ [][StringWidthCall \/ StringWidthEnsureRoot \/ StringWidthMeasure
          \/ StringWidthEstimate]_vars
    /\ WF_vars(StringWidthEnsureRoot \/ StringWidthMeasure \/ StringWidthEstimate)

-----------------------------------------------------------------------------
(* Single calls of functions on drawn arguments.  In a key string "k" and    *)
(* "j" are letters, "," the comma, "n" the newline and " " a blank.          *)

\* the keys argument: None, a str, or a list whose items are strs or None
KeysArguments ==
    LET items == { None, <<>>, <<"k">>, <<" ", "j", " ">>, <<"k", ",", "j">>,
                   <<"j", "n", "k", ",">>, <<" ", ",">> }
    IN  {[kind |-> "none", val |-> <<>>]}
        \cup {[kind |-> "str", val |-> v] :
                 v \in SeqsUpTo({"k", ",", "n", " "}, MaxKeyChars)}
        \cup {[kind |-> "list", val |-> v] : v \in SeqsUpTo(items, MaxKeyItems)}

\* gemini_utils.py lines 108-131 without the removal of duplicates
NormalizeKeepingDuplicates(keys) ==
    LET raw == IF keys.kind = "str" THEN <<keys.val>> ELSE keys.val
        parts(v) == DropEmpty(StripAll(Split(Replace(v, <<"n">>, <<",">>), <<",">>)))
    IN  Concat([i \in DOMAIN raw |->
                   IF raw[i] = None \/ raw[i] = <<>> THEN <<>> ELSE parts(raw[i])])

\* gemini_utils.py lines 108-131
normalize_api_keys(keys) ==
    LET raw == IF keys.kind = "none" THEN <<>>
               ELSE IF keys.kind = "str" THEN <<keys.val>> ELSE keys.val
        parts(v) == DropEmpty(StripAll(Split(Replace(v, <<"n">>, <<",">>), <<",">>)))
        candidates == Concat([i \in DOMAIN raw |->
                                 IF raw[i] = None \/ raw[i] = <<>> THEN <<>>
                                 ELSE parts(raw[i])])
        first == {i \in DOMAIN candidates :
                     \A j \in 1..(i - 1) : candidates[j] # candidates[i]}
    IN  [n \in 1..Cardinality(first) |->
            candidates[CHOOSE i \in first : Cardinality({j \in first : j <= i}) = n]]

\* the api_keys handed to MultiKeyGeminiTranslator: None, empty, blank,
\* padded and repeated items among them
SwitchKeys == SeqsUpTo({None, <<>>, <<" ">>, <<"k">>, <<" ", "j">>, <<"j">>}, MaxSwitchKeys)

\* gemini_utils.py lines 36-50: the object __init__ leaves; _api_index counts
\* from 0 as in the source
MultiKeyGeminiTranslator(keys) ==
    LET cleaned == DropEmpty(StripAll(SelectSeq(keys, LAMBDA key : key # None)))
    IN  [fn |-> "_switch_api",
         api_keys |-> cleaned,
         api_index |-> 0,
         current_api_key |-> cleaned[1],
         current_api_number |-> 1,
         backup_api_number |-> IF Len(cleaned) > 1 THEN 2 ELSE 1]

\* _switch_api that leaves the backup number as it was
SwitchApiKeepingBackup(self) ==
    IF Len(self.api_keys) <= 1 THEN [self |-> self, ret |-> FALSE]
    ELSE LET next_index == (self.api_index + 1) % Len(self.api_keys)
         IN  [self |-> [self EXCEPT !.api_index = next_index,
                                    !.current_api_key = self.api_keys[next_index + 1],
                                    !.current_api_number = next_index + 1],
              ret |-> TRUE]

\* gemini_utils.py lines 61-70: the for loop from step on
RECURSIVE SwitchFrom(_, _)
SwitchFrom(self, step) ==
    LET total_keys == Len(self.api_keys)
        next_index == (self.api_index + step) % total_keys
        next_key   == self.api_keys[next_index + 1]
    IN  IF step > total_keys THEN [self |-> self, ret |-> FALSE]
        ELSE IF next_index = self.api_index THEN SwitchFrom(self, step + 1)
        ELSE IF next_key # <<>>
             THEN [self |-> [self EXCEPT !.api_index = next_index,
                                         !.current_api_key = next_key,
                                         !.current_api_number = next_index + 1,
                                         !.backup_api_number = self.current_api_number],
                   ret |-> TRUE]
             ELSE SwitchFrom(self, step + 1)

\* gemini_utils.py lines 52-72
switch_api(self) ==
    IF Len(self.api_keys) <= 1 THEN [self |-> self, ret |-> FALSE]
    ELSE SwitchFrom(self, 1)

\* the segments handed to split_segments: one or two segments of timed
\* words, each word a short word, a short word that ends a sentence or a
\* word of more than 3 characters; start times rise through the input
SegmentLists ==
    LET texts == SeqsUpTo({<<"a">>, <<"a", ".">>, <<"a", "a", "a", "a">>}, MaxSegWords)
        timed(ws, base) == [words |-> [k \in DOMAIN ws |->
                                          [word |-> ws[k], start |-> base + k]]]
    IN  {<<timed(u, 0)>> : u \in texts}
        \cup {<<timed(u, 0), timed(v, Len(u))>> : u \in texts, v \in texts}

\* the texts handed to split_string_to_max_lines: "a" is a letter, "." a
\* full stop, " " a blank; the longer ones reach the break after a short word
WrapTexts ==
    SeqsUpTo({"a", ".", " "}, MaxWrapChars)
    \cup { <<"a", "a", "a", "a", " ", "a", " ", "a", " ", "a">>,
           <<"a", "a", "a", "a", " ", "a", ".", " ", "a", ".", " ", "a", "a">> }

\* the calls of translate_chunk: a batch is what join_sentences builds, each
\* cue text followed by the marker, or a text whose marker was cut off;
\* expected is the batch's marker count (translate_utils.py line 104); the
\* provider behaves in one or two of the ways of Reply, raise and hang
ChunkCalls ==
    LET cues == { <<"a">>, <<"c">>, <<"a", " ", "c">>, <<"_">> }
        batches == { Concat([i \in DOMAIN ls |-> ls[i] \o separator]) :
                        ls \in SeqsUpTo(cues, MaxChunkLines) \ {<<>>} }
                   \cup { <<"a", " ", "c">>, <<"a", "~">>,
                          [i \in 1..(ShortChunk + 1) |-> "a"] \o separator }
        kinds == FullProvider \cup {"marked"}
    IN  {[fn |-> "translate_chunk", prov |-> {k1, k2}, chunk |-> c,
          expected |-> count_separators(c), start_idx |-> s] :
            k1 \in kinds, k2 \in kinds, c \in batches,
            s \in 0..(Len(hard_separators) - 1)}

\* the calls of unjoin_sentences whose translation has another number of
\* fragments than the batch has lines: the batch has lines of "a" words, each
\* followed by the marker; the translation's j-th word is j times "b", and it
\* has no marker at all or one after every word
RedistCalls ==
    LET Words(w, ch) == [j \in 1..w |-> [x \in 1..j |-> ch]]
        Batch(ws) == Concat([i \in DOMAIN ws |->
                                Join([j \in 1..ws[i] |-> <<"a">>], <<" ">>) \o separator])
    IN  {[fn |-> "unjoin_sentences", original |-> Batch(ws), modified |-> m] :
            ws \in {v \in SeqsUpTo(1..MaxLineWords, MaxRedistLines) : Len(v) >= 2},
            m \in UNION {{ Join(Words(t, "b"), <<" ">>),
                           Concat([j \in 1..t |-> Words(t, "b")[j] \o separator]) } :
                         t \in (1..MaxPoolWords)} }

InitCalls ==
    /\ IdleText /\ IdleSrt /\ IdleTltw
    /\ sd_pc = "idle" /\ max_rounds = 0 /\ require_end_marker = FALSE
    /\ stream_output = FALSE /\ continuation_tail_chars = 0 /\ full_text = <<>>
    /\ truncated = FALSE /\ rounds = 0 /\ generations = 0 /\ requests = 0
    /\ sw_pc = "idle" /\ tries_remaining = 0 /\ string_width_root = 0
    /\ font_cache = <<>> /\ sw_attempts = 0 /\ sw_result = "none"
    /\ call_result = <<>>
    /\ call_pc = "call"
    /\ \/ call_args \in {[fn |-> "normalize_api_keys", keys |-> k] : k \in KeysArguments}
       \/ call_args \in {[fn |-> "split_string_to_max_lines", text |-> t,
                            max_width |-> w, max_lines |-> n] :
                              t \in WrapTexts, w \in {0, MaxWrapWidth},
                              n \in 0..MaxWrapLines}
       \/ call_args \in ChunkCalls
       \/ call_args \in {c \in RedistCalls :
                            Count(c.modified, separator_unjoin)
                                # Count(c.original, separator_unjoin)}
       \/ call_args \in {[fn |-> "split_segments", segments |-> g,
                            max_width_px |-> w] :
                              g \in SegmentLists,
                              w \in {MaxSegWidth \div 2, MaxSegWidth}}
       \/ call_args \in {MultiKeyGeminiTranslator(k) :
                            k \in {ks \in SwitchKeys :
                                      \E i \in DOMAIN ks :
                                          ks[i] # None /\ Strip(ks[i]) # <<>>}}

CallNormalizeApiKeys ==
    /\ call_pc = "call" /\ call_args.fn = "normalize_api_keys"
    /\ call_result' = normalize_api_keys(call_args.keys)
    /\ call_pc' = "returned"
    /\ UNCHANGED call_args
    /\ UNCHANGED <<textVars, srtVars, tltwVars, sendVars, widthVars>>

\* subtitle_utils.py lines 156-191
CallSplitStringToMaxLines ==
    /\ call_pc = "call" /\ call_args.fn = "split_string_to_max_lines"
    /\ call_result' = split_string_to_max_lines(call_args.text, call_args.max_width,
                                                 call_args.max_lines)
    /\ call_pc' = "returned"
    /\ UNCHANGED call_args
    /\ UNCHANGED <<textVars, srtVars, tltwVars, sendVars, widthVars>>

\* translate_utils.py lines 150-190: one of the call's outcomes
CallTranslateChunk ==
    /\ call_pc = "call" /\ call_args.fn = "translate_chunk"
    /\ \E o \in translate_chunk(call_args.prov, call_args.chunk, call_args.expected,
                                 call_args.start_idx) :
          call_result' = <<o>>
    /\ call_pc' = "returned"
    /\ UNCHANGED call_args
    /\ UNCHANGED <<textVars, srtVars, tltwVars, sendVars, widthVars>>

\* translate_utils.py lines 243-325 as line 127 calls it
CallUnjoinRedistributing ==
    /\ call_pc = "call" /\ call_args.fn = "unjoin_sentences"
    /\ call_result' = <<unjoin_sentences(call_args.original, call_args.modified,
                                          separator_unjoin)>>
    /\ call_pc' = "returned"
    /\ UNCHANGED call_args
    /\ UNCHANGED <<textVars, srtVars, tltwVars, sendVars, widthVars>>

\* subtitle_utils.py lines 112-153
CallSplitSegments ==
    /\ call_pc = "call" /\ call_args.fn = "split_segments"
    /\ call_result' = split_segments(call_args.segments, call_args.max_width_px)
    /\ call_pc' = "returned"
    /\ UNCHANGED call_args
    /\ UNCHANGED <<textVars, srtVars, tltwVars, sendVars, widthVars>>

\* gemini_utils.py lines 52-72, called on the object any number of times;
\* call_args is the object, call_result the returned value and the object
\* the call found
CallSwitchApi ==
    /\ call_pc \in {"call", "returned"} /\ call_args.fn = "_switch_api"
    /\ call_args' = switch_api(call_args).self
    /\ call_result' = <<[ret |-> switch_api(call_args).ret, before |-> call_args]>>
    /\ call_pc' = "returned"
    /\ UNCHANGED <<textVars, srtVars, tltwVars, sendVars, widthVars>>

SpecCalls ==
    InitCalls /\ [][CallNormalizeApiKeys \/ CallSplitStringToMaxLines
                    \/ CallTranslateChunk \/ CallUnjoinRedistributing
                    \/ CallSplitSegments \/ CallSwitchApi]_vars

-----------------------------------------------------------------------------
(* Claims about the text functions *)

\* C1: for every batch of join_sentences and every translated string,
\* unjoin_sentences(batch, translated, marker) returns a list with exactly as
\* many elements as the batch has cues.
C1_UnjoinKeepsCueCount ==
    (pcText = "unjoined" /\ modified_sentence # None) =>
        /\ unjoined.kind = "list"
        /\ ResultLen(unjoined) = Len(joined_cues[batch_index])

\* the addition of cue i: its text, or the filler when it is empty, and the marker
Addition(i) == (IF lines[i] = <<>> THEN filler ELSE lines[i]) \o separator

RECURSIVE Additions(_)
Additions(cs) == IF cs = <<>> THEN <<>> ELSE Addition(Head(cs)) \o Additions(Tail(cs))

\* C5: the batches of join_sentences, read in order, hold the cues 1..n exactly
\* once each in increasing order, and each batch is made of the cues it holds.
C5_BatchesPartitionCues ==
    pcText = "joined" =>
        /\ Len(joined_cues) = Len(joined_lines)
        /\ Concat(joined_cues) = [i \in 1..Len(lines) |-> i]
        /\ \A k \in DOMAIN joined_lines :
              /\ joined_cues[k] # <<>>
              /\ \/ joined_lines[k] = Additions(joined_cues[k])
                 \/ /\ Len(joined_cues[k]) = 1
                    /\ Len(Addition(joined_cues[k][1])) > max_chars

C5_Witness ==
    /\ pcText = "joined"
    /\ Len(lines) = 3
    /\ Len(joined_lines) = 2
    /\ \E k \in DOMAIN joined_lines : Len(joined_cues[k]) = 2
    /\ \E k \in DOMAIN joined_lines : joined_lines[k] # Additions(joined_cues[k])

\* C6: in every batch each cue text is followed by exactly one soft marker: the
\* batch ends with the marker and holds as many markers as cues.
C6_EveryCueHasItsMarker ==
    pcText = "joined" =>
        \A k \in DOMAIN joined_lines :
            /\ Len(joined_lines[k]) >= Len(separator)
            /\ MatchAt(joined_lines[k], separator,
                       Len(joined_lines[k]) - Len(separator) + 1)
            /\ Count(joined_lines[k], separator) = Len(joined_cues[k])

\* C24: a cue whose text and marker alone exceed max_chars makes a batch of
\* its own: a prefix of the cue that ends at a word boundary before the limit,
\* then the ellipsis, then the marker; the other cues are in other batches.
C24_LongCueCutAtWordBoundary ==
    pcText = "joined" =>
        \A i \in DOMAIN lines :
            Len(Addition(i)) > max_chars =>
                \E k \in DOMAIN joined_lines :
                    /\ joined_cues[k] = <<i>>
                    /\ \E e \in 0..(Len(lines[i]) - 1) :
                          /\ lines[i][e + 1] = " "
                          /\ e + 1 <= max_chars - (1 + Len(separator))
                          /\ joined_lines[k]
                                = SubSeq(lines[i], 1, e) \o ellipsis \o separator

\* plain greedy packing of the cues of lines, sentence endings ignored: a cue
\* goes into the open batch unless it and its marker would not fit; a cue that
\* exceeds max_chars with its marker alone is a batch of its own
RECURSIVE GreedyCues(_, _, _)
GreedyCues(i, done, open) ==
    IF i > Len(lines)
    THEN IF open = <<>> THEN done ELSE Append(done, open)
    ELSE LET fits   == Len(Additions(open)) + Len(Addition(i)) <= max_chars
             closed == IF open = <<>> \/ fits THEN done ELSE Append(done, open)
             kept   == IF fits THEN open ELSE <<>>
         IN  IF Len(Addition(i)) > max_chars
             THEN GreedyCues(i + 1, Append(closed, <<i>>), <<>>)
             ELSE GreedyCues(i + 1, closed, Append(kept, i))

LastCue(k) == joined_cues[k][Len(joined_cues[k])]

\* C25: join_sentences closes a batch before cue i+1 only when cue i+1 and its
\* marker would make the batch longer than max_chars; a cue that ends a
\* sentence never ends a batch by itself, so the batches are those of plain
\* greedy packing that ignores sentence endings.
C25_BatchesAreGreedyPacking ==
    pcText = "joined" =>
        /\ joined_cues = GreedyCues(1, <<>>, <<>>)
        /\ \A k \in DOMAIN joined_cues :
              k < Len(joined_cues) =>
                  Len(Additions(joined_cues[k])) + Len(Addition(LastCue(k) + 1))
                      > max_chars

\* a cue that ends a sentence is followed by the next cue in its batch, and
\* another batch was closed because the next cue did not fit
C25_Witness ==
    /\ pcText = "joined"
    /\ Len(joined_cues) >= 2
    /\ \E k \in DOMAIN joined_cues :
          /\ Len(joined_cues[k]) >= 2
          /\ \E e \in sentence_endings : EndsWith(lines[joined_cues[k][1]], e)

\* C7: every batch of join_sentences has at most max_chars characters, also
\* when a cue's text and marker alone exceed max_chars.
C7_BatchWithinMaxChars ==
    pcText = "joined" =>
        \A k \in DOMAIN joined_lines : Len(joined_lines[k]) <= max_chars

C7_Witness ==
    /\ pcText = "joined"
    /\ max_chars > Len(separator) + 1
    /\ \E i \in DOMAIN lines : Len(Addition(i)) > max_chars
    /\ \E k \in DOMAIN joined_lines : Len(joined_lines[k]) = max_chars

\* the lines of a batch: its non-blank fields between the markers, trimmed
BatchLines(batch) == DropEmpty(StripAll(Split(batch, separator_unjoin)))

\* C13: unjoin_sentences with the translation None returns the batch's lines,
\* trimmed and in order, or the blank placeholder " " when there is none.
C13_AbsentTranslationGivesLines ==
    (pcText = "unjoined" /\ modified_sentence = None) =>
        IF BatchLines(original_sentence) = <<>>
        THEN unjoined.kind = "str" /\ unjoined.val = <<" ">>
        ELSE unjoined.kind = "list" /\ unjoined.val = BatchLines(original_sentence)

\* C14: unjoin_sentences with the batch itself as the translation returns the
\* batch's lines, unchanged up to the normalization of whitespace.
C14_EchoGivesBackLines ==
    (pcText = "unjoined" /\ modified_sentence = original_sentence) =>
        /\ unjoined.kind = "list"
        /\ Len(unjoined.val) = Len(BatchLines(original_sentence))
        /\ \A i \in DOMAIN unjoined.val :
              SplitWs(unjoined.val[i]) = SplitWs(BatchLines(original_sentence)[i])

-----------------------------------------------------------------------------
(* Claims about translate_srt_file *)

Frame(cue) == <<cue.index, cue.start, cue.end>>

SameFrame(track, other) ==
    /\ Len(track) = Len(other)
    /\ \A i \in DOMAIN track : Frame(track[i]) = Frame(other[i])

\* C2: translate_srt_file changes only the text of cues: the saved track has
\* the cues of the input track, in the same order, each with its index, start
\* and end unchanged, whatever the provider returned; so has the track in memory.
C2_OnlyTextChanges ==
    /\ pcMain \in {"running", "saved", "raised"} => SameFrame(subs, srt_file)
    /\ pcMain = "saved" => SameFrame(saved_file, srt_file)

C2_Witness ==
    /\ pcMain = "saved"
    /\ Len(saved_file) = MaxTrackCues
    /\ \A i \in DOMAIN saved_file : saved_file[i].text # srt_file[i].text
    /\ \E k \in DOMAIN chunks : returned[k] # Translate(chunks[k])

\* the texts the cues get when batch k is unjoined from what task k's own
\* translate_chunk call returned, the batches taken by index
TextsByBatchIndex ==
    Concat([k \in DOMAIN chunks |->
                Items(unjoin_sentences(chunks[k], returned[k], separator_unjoin))])

\* the faithful translation of cue i as unjoin_sentences tidies it
FaithfulText(i) ==
    LET content == SubContent(srt_file)[i]
    IN  Tidy(Translate(IF content = <<>> THEN filler ELSE content))

\* C3: for every completion order of the batch tasks the result of batch k is
\* stored at position k, and the cue texts are reassembled by batch index: when
\* every batch got the faithful translation, output cue i carries the
\* translation of input cue i.
C3_ReassembledByBatchIndex ==
    /\ pcMain \in {"running", "saved", "raised"} =>
          \A k \in DOMAIN chunks :
              /\ translated_chunks[k] = returned[k]
              /\ (task_pc[k] = "done") = (translated_chunks[k] # None)
    /\ pcMain = "saved" =>
          /\ Len(TextsByBatchIndex) = Len(saved_file)
          /\ \A i \in DOMAIN saved_file :
                saved_file[i].text = Rewrap(TextsByBatchIndex[i], srt_file[i])
          /\ (\A k \in DOMAIN chunks : returned[k] = Translate(chunks[k])) =>
                \A i \in DOMAIN saved_file :
                    saved_file[i].text = Rewrap(FaithfulText(i), srt_file[i])

C3_Witness ==
    /\ pcMain = "saved"
    /\ out_of_order
    /\ Len(chunks) >= 2
    /\ \A k \in DOMAIN chunks : returned[k] = Translate(chunks[k])
    /\ \E i, j \in DOMAIN saved_file : saved_file[i].text # saved_file[j].text

\* C4: every batch eventually gets a result stored in translated_chunks, under
\* fair scheduling and for any provider behaviour, also when every call of the
\* provider raises or hangs until its timeout.
C4_EveryBatchGetsAResult ==
    <>(\A k \in DOMAIN chunks : translated_chunks[k] # None)

InFlight == {k \in DOMAIN task_pc : task_pc[k] = "inflight"}

\* C8: at most 7 translate_chunk calls are in flight at any moment, also while
\* calls time out and their batches are restarted; the semaphore counts them.
C8_AtMostSevenInFlight ==
    pcMain = "running" =>
        /\ Cardinality(InFlight) <= SemaphoreSlots
        /\ semaphore = SemaphoreSlots - Cardinality(InFlight)

C8_Witness ==
    /\ Cardinality(InFlight) = SemaphoreSlots
    /\ \E k \in DOMAIN task_pc : task_pc[k] = "start" /\ ~CanAcquire(semaphore)
    /\ \E k \in DOMAIN task_pc : task_pc[k] = "sleep"

\* C22: a batch whose provider calls never return holds a slot only while
\* an attempt is in flight (it has released it when it sleeps or waits to
\* retry), and every batch whose provider answers eventually completes.
C22_StuckCallsDoNotStallThePool ==
    /\ [](pcMain = "running" =>
             semaphore = SemaphoreSlots - Cardinality(InFlight))
    /\ <>(\A k \in DOMAIN task_pc :
             provider[k] = {"faithful"} => task_pc[k] = "done")

\* C30: the shared hard-marker index is 0 in every reachable state, each
\* reservation of 3 markers from the pool of 3 returning start 0; so, for any
\* interleaving of the batches, the hard-marker attempts of every batch use
\* the pool markers in the same fixed order, each at most once.
C30_HardMarkersInFixedOrder ==
    /\ hard_sep_index = 0
    /\ \A k \in DOMAIN task_pc :
          task_pc[k] = "inflight" =>
              \A o \in Outcomes(CallsOf(k), chunks[k], hard_sep_index) :
                  o.tokens = [i \in 1..o.hard |-> i - 1]

\* a batch has made its reservation and its hard-marker attempts and is
\* done, while another batch is about to end after its three attempts
C30_Witness ==
    /\ provider = [k \in DOMAIN chunks |-> PoolProvider]
    /\ \E k \in DOMAIN task_pc : task_pc[k] = "done"
    /\ \E j \in DOMAIN task_pc :
          /\ task_pc[j] = "inflight"
          /\ \E o \in Outcomes(CallsOf(j), chunks[j], hard_sep_index) :
                o.reserved /\ o.hard = HardAttempts /\ o.tokens = <<0, 1, 2>>

-----------------------------------------------------------------------------
(* Claims about generate_tltw_summary *)

\* the call raised out of the try of its key: the key failed for the request
RaisedOut(c) ==
    c.outcome = "error" \/ (c.outcome = "type_error" /\ c.attempt = 2)

\* C9 as stated: within one request no credential is called a second time
\* and no call follows a call that succeeded.
C9_NoCredentialCalledAgain ==
    \A i, j \in DOMAIN calls :
        i < j => calls[i].key # calls[j].key /\ calls[i].outcome # "ok"

\* C9: within one request the credentials are called in list order from the
\* first, none skipped.  A credential is called once, and once more directly
\* afterwards exactly when its first call raised TypeError; it is never called
\* again after that.  No call follows a call that succeeded, except in the
\* final synthesis of several chunks when the summary could not be written.
C9_ListOrderOneFallback ==
    /\ \A i \in DOMAIN calls :
          /\ calls[i].request = calls_request
          /\ calls[i].key = api_keys[calls[i].pos]
          /\ calls[i].attempt \in {1, 2}
    /\ calls # <<>> => calls[1].pos = 1 /\ calls[1].attempt = 1
    /\ \A i \in 1..(Len(calls) - 1) :
          /\ IF calls[i].outcome = "type_error" /\ calls[i].attempt = 1
             THEN calls[i + 1].pos = calls[i].pos /\ calls[i + 1].attempt = 2
             ELSE calls[i + 1].pos = calls[i].pos + 1 /\ calls[i + 1].attempt = 1
          /\ calls[i].outcome = "ok" =>
                /\ text_chunks > 1
                /\ calls_request = LastRequest(text_chunks)
                /\ ~calls[i].written
    /\ \A i, j \in DOMAIN calls :
          (i < j /\ calls[i].key = calls[j].key) =>
              /\ j = i + 1
              /\ calls[i].outcome = "type_error"

C9_Witness ==
    /\ tl_pc = "returned"
    /\ Len(api_keys) >= 2
    /\ Len(calls) = 3
    /\ calls[1].outcome = "type_error"
    /\ calls[2].key = calls[1].key /\ calls[2].outcome = "error"
    /\ calls[3].key = api_keys[2] /\ calls[3].outcome = "ok"

AllCredentialsFailed ==
    /\ api_keys # <<>>
    /\ \A p \in DOMAIN api_keys :
          \E i \in DOMAIN calls : calls[i].pos = p /\ RaisedOut(calls[i])

\* C10: when the request fails with every credential the run raises, returns
\* no summary and leaves the output file unwritten; the output file is written
\* only after a call of the last request succeeded, with that call's summary.
C10_RaisesAndWritesNothing ==
    /\ AllCredentialsFailed =>
          /\ tl_pc = "raised"
          /\ tl_result = NoSummary
          /\ output_file = NoSummary
    /\ tl_pc = "raised" => tl_result = NoSummary /\ output_file = NoSummary
    /\ output_file # NoSummary =>
          /\ tl_pc = "returned"
          /\ calls # <<>>
          /\ calls_request = LastRequest(text_chunks)
          /\ calls[Len(calls)].outcome = "ok"
          /\ output_file = Summary(calls_request, calls[Len(calls)].key)
          /\ tl_result = output_file
    /\ tl_pc = "returned" => output_file # NoSummary

C10_Witness ==
    /\ tl_pc = "raised"
    /\ Len(api_keys) = MaxKeys
    /\ AllCredentialsFailed
    /\ calls_request = LastRequest(text_chunks)
    /\ chunk_summaries # <<>>
    /\ output_file = NoSummary

-----------------------------------------------------------------------------
(* Claims about _send_tltw_request *)

SendEnded == sd_pc \in {"returned", "raised"}

\* C11 as stated: at most max_rounds generation requests are issued.
C11_AtMostMaxRoundsRequests ==
    sd_pc # "idle" => requests <= max_rounds

\* C11: at most max(1, max_rounds) generation rounds are made, the first one
\* and at most max_rounds - 1 continuations; a round issues one request, or
\* two when stream_output is on and the streamed request raises; and the call
\* ends, by returning or raising, whatever the provider answers.
C11_BoundedRoundsThenEnds ==
    /\ [](sd_pc # "idle" =>
             /\ generations <= Max2(1, max_rounds)
             /\ generations <= requests
             /\ requests <= (IF stream_output THEN 2 ELSE 1) * generations)
    /\ <>SendEnded

C11_Witness ==
    /\ SendEnded
    /\ max_rounds = MaxRounds
    /\ generations = max_rounds
    /\ requests = 2 * generations

\* C12: when the prompt requires the end marker, a returned text holds the
\* marker; a call that ends without it in the document, the budget used up or
\* a continuation having added nothing, has raised.
C12_ReturnsOnlyFinishedText ==
    require_end_marker =>
        /\ sd_pc = "returned" => Count(full_text, END_MARKER) > 0
        /\ (SendEnded /\ Count(full_text, END_MARKER) = 0) => sd_pc = "raised"
        /\ sd_pc = "loop" => Count(full_text, END_MARKER) = 0 /\ truncated

C12_Witness ==
    /\ sd_pc = "raised"
    /\ require_end_marker
    /\ max_rounds >= 2
    /\ rounds = max_rounds
    /\ full_text # <<>>
    /\ Count(full_text, END_MARKER) = 0

-----------------------------------------------------------------------------
(* Claims about the single calls *)

\* the strs among the items of the keys argument
KeyValues(keys) ==
    LET raw == IF keys.kind = "none" THEN <<>>
               ELSE IF keys.kind = "str" THEN <<keys.val>> ELSE keys.val
    IN  [i \in DOMAIN raw |-> IF raw[i] = None THEN <<>> ELSE raw[i]]

\* the places <<item, first, last>> of the comma- or newline-separated fields
KeyFields(keys) ==
    LET vs == KeyValues(keys)
        IsSep(v, i) == i = 0 \/ i = Len(v) + 1 \/ v[i] \in {",", "n"}
    IN  {<<m, i, j>> \in (DOMAIN vs) \X (1..(MaxKeyChars + 2)) \X (0..(MaxKeyChars + 2)) :
            /\ i <= j + 1 /\ j <= Len(vs[m])
            /\ IsSep(vs[m], i - 1) /\ IsSep(vs[m], j + 1)
            /\ \A x \in i..j : ~IsSep(vs[m], x)}

FieldKey(keys, f) == Strip(SubSeq(KeyValues(keys)[f[1]], f[2], f[3]))

Earlier(f, g) == f[1] < g[1] \/ (f[1] = g[1] /\ f[2] < g[2])

\* C15: normalize_api_keys returns the trimmed comma- or newline-separated
\* fields of its input that are not empty, each once, in the order of their
\* first appearance; None and the empty list give the empty list; and the
\* function returns its own result unchanged.
C15_NormalizedKeys ==
    call_pc = "returned" /\ call_args.fn = "normalize_api_keys" =>
        LET r == call_result
            fs == KeyFields(call_args.keys)
            FirstAt(key) == CHOOSE f \in fs :
                                /\ FieldKey(call_args.keys, f) = key
                                /\ \A g \in fs : FieldKey(call_args.keys, g) = key =>
                                       ~Earlier(g, f)
        IN  /\ Range(r) = {FieldKey(call_args.keys, f) : f \in fs} \ {<<>>}
            /\ \A i, j \in DOMAIN r : i < j =>
                  /\ r[i] # r[j]
                  /\ Earlier(FirstAt(r[i]), FirstAt(r[j]))
            /\ \A i \in DOMAIN r : r[i] = Strip(r[i]) /\ Count(r[i], <<",">>) = 0
            /\ call_args.keys.val = <<>> => r = <<>>
            /\ normalize_api_keys([kind |-> "list", val |-> r]) = r

C15_Witness ==
    /\ call_pc = "returned"
    /\ call_args.fn = "normalize_api_keys"
    /\ call_args.keys = [kind |-> "list",
                         val |-> << <<"k", ",", "j">>, <<"j", "n", "k", ",">> >>]
    /\ call_result = << <<"k">>, <<"j">> >>

\* the words of the lines of a result, read in order
WordsOf(lns) == Concat([i \in DOMAIN lns |-> SplitWs(lns[i])])

\* C16 as stated: split_string_to_max_lines returns at most max_lines lines,
\* and the words of the returned lines are the words of the text in order.
C16_AtMostMaxLines ==
    call_pc = "returned" /\ call_args.fn = "split_string_to_max_lines" =>
        /\ Len(call_result) <= call_args.max_lines
        /\ WordsOf(call_result) = SplitWs(call_args.text)

\* C16 amended: split_string_to_max_lines returns at most max_lines lines, or
\* the one line of the unsplit text when max_lines is below 2, and the words
\* of the returned lines, read in order, are exactly the words of the text.
C16_WordsKeptWithinLines ==
    call_pc = "returned" /\ call_args.fn = "split_string_to_max_lines" =>
        /\ Len(call_result) <= Max2(1, call_args.max_lines)
        /\ WordsOf(call_result) = SplitWs(call_args.text)

C16_Witness ==
    /\ call_pc = "returned" /\ call_args.fn = "split_string_to_max_lines"
    /\ call_args.max_lines = 2 /\ Len(call_result) = 2
    /\ Len(SplitWs(call_result[2])) >= 2
    /\ Len(SplitWs(call_args.text)) >= 4

-----------------------------------------------------------------------------
(* Claims about string_width *)

\* C17: string_width never raises and always returns: a call makes at most 5
\* attempts, after a failed attempt the root is discarded and the next
\* attempt measures on a root it has acquired, and a call that returns
\* without a measurement has failed 5 times and returns
\* len(text) * font_size * 0.6 (call_result counts tenths).
C17_FiveTriesThenEstimate ==
    /\ [](sw_pc # "idle" =>
            /\ sw_attempts <= 5 /\ sw_attempts + tries_remaining = 5
            /\ sw_pc \in {"loop", "measure", "done"}
            /\ (sw_pc = "loop" /\ sw_attempts > 0) => string_width_root = 0
            /\ sw_pc = "measure" => string_width_root # 0
            /\ sw_pc = "done" =>
                  \/ sw_result = "measured" /\ string_width_root # 0
                  \/ /\ sw_result = "estimate" /\ sw_attempts = 5
                     /\ string_width_root = 0
                     /\ call_result = <<Len(call_args.text) * call_args.font_size * 6>>)
    /\ (sw_pc \in {"loop", "measure"}) ~> (sw_pc = "done")

C17_Witness ==
    /\ sw_pc = "done" /\ sw_result = "estimate" /\ sw_attempts = 5
    /\ Len(call_args.text) = MaxWidthChars /\ call_args.font_size = MaxFontSize
    /\ call_result = <<6 * MaxWidthChars * MaxFontSize>>
    /\ font_cache # <<>>

\* C29: every measurement object held in the font cache belongs to the
\* current measurement root: once a failed measurement has destroyed the
\* root, no attempt of this or a later call measures with a cached object
\* that was created on a destroyed root.
C29_CachedFontOnCurrentRoot ==
    (sw_pc = "measure" /\ font_cache # <<>>) => font_cache[1] = string_width_root

-----------------------------------------------------------------------------
(* Claims about translate_chunk *)

\* a call of translate_chunk has returned a text of the given tier
ChunkReturned(tier) ==
    /\ call_pc = "returned" /\ call_args.fn = "translate_chunk"
    /\ call_result[1].kind = "return" /\ call_result[1].tier = tier

\* the acceptance rules but the marker count: not empty, a word outside the
\* markers, not likely unchanged against the batch
PassesRules(text, chunk) ==
    /\ text # <<>>
    /\ Len(SplitWs(strip_separators(text))) >= 1
    /\ ~is_likely_unchanged(text, chunk)

\* C21: translate_chunk tries the soft-marker batch, then the hard-marker
\* batch, then the lines: it makes at most 3 soft-marker calls (1 when the
\* batch without its markers has at most 20 characters) and at most 3
\* hard-marker calls; the hard-marker strategy runs only after all the
\* soft-marker calls were made, the per-line strategy only after all 3
\* hard-marker calls, and a returned text is that of the strategy running.
C21_StrategiesInOrder ==
    call_pc = "returned" /\ call_args.fn = "translate_chunk" =>
        LET o == call_result[1]
            budget == IF Len(strip_separators(call_args.chunk)) > 20 THEN 3 ELSE 1
        IN  /\ o.stage \in {1, 2, 3}
            /\ 1 <= o.soft /\ o.soft <= budget /\ o.hard <= 3
            /\ o.stage = 1 => o.hard = 0 /\ ~o.reserved
            /\ o.stage >= 2 => o.soft = budget /\ o.reserved
            /\ o.stage = 2 => o.hard >= 1
            /\ o.stage = 3 => o.hard = 3
            /\ o.kind = "return" => o.tier = o.stage

C21_Witness ==
    /\ call_pc = "returned" /\ call_args.fn = "translate_chunk"
    /\ call_result[1].kind = "return" /\ call_result[1].stage = 3
    /\ call_result[1].soft = 3 /\ call_result[1].hard = 3
    /\ call_args.prov = {"echo", "empty"}

\* C18: with a provider that answers every request with the request's text,
\* translate_chunk returns the text of the per-line tier only: the echo is
\* accepted neither in the soft-marker tier nor in the hard-marker tier.
C18_EchoNeverAccepted ==
    call_pc = "returned" /\ call_args.fn = "translate_chunk"
    /\ call_args.prov = {"echo"} /\ call_result[1].kind = "return"
        => call_result[1].tier = 3

\* C19: a text returned by the hard-marker tier is not empty, has a word
\* outside the markers, holds as many soft markers as expected and is not
\* likely unchanged against the batch.
C19_HardTierSameRules ==
    ChunkReturned(2) =>
        /\ PassesRules(call_result[1].text, call_args.chunk)
        /\ Count(call_result[1].text, separator) = call_args.expected

C28_PerLineKeepsMarkersAndFields ==
    ChunkReturned(3) =>
        LET ls     == StripAll(Split(call_args.chunk, separator))
            fields == Split(call_result[1].text, separator)
        IN  /\ Count(call_result[1].text, separator)
                  = Count(call_args.chunk, separator)
            /\ Len(fields) = Len(ls)
            /\ \A i \in DOMAIN ls :
                  \/ fields[i] = ls[i]
                  \/ \E kind \in call_args.prov \ {"raise", "hang"} :
                        fields[i] = Reply(kind, ls[i])

-----------------------------------------------------------------------------
(* Claims about the redistribution of unjoin_sentences *)

\* the word counts of the lines of a batch
LineWords(batch) ==
    LET fields == Split(batch, separator)
    IN  [i \in 1..(Len(fields) - 1) |-> Len(SplitWs(fields[i]))]

\* the words of a translation, its markers apart
PoolWords(modified) == SplitWs(Replace(modified, separator_unjoin, <<" ">>))

\* round(w * T / O): the nearest integer, the even one of two
Nearest(w, T, O) ==
    CHOOSE k \in 0..(w * T + 1) :
        /\ 2 * k * O - O <= 2 * w * T /\ 2 * w * T <= 2 * k * O + O
        /\ (2 * w * T = 2 * k * O - O \/ 2 * w * T = 2 * k * O + O) => k % 2 = 0

\* the number of words the result's lines before line i hold
WordsBefore(lns, i) == Len(WordsOf(SubSeq(lns, 1, i - 1)))

-----------------------------------------------------------------------------
(* Claims about MultiKeyGeminiTranslator._switch_api *)

\* C26: with two or more keys _switch_api moves the active credential to the
\* next key of the list, wrapping from the last to the first, records the
\* number that was active as the backup number and returns True; with one
\* key it returns False and changes nothing; after any sequence of switches
\* current_api_key is _api_keys[_api_index] and current_api_number is
\* _api_index + 1.
C26_SwitchMovesToNextKey ==
    call_args.fn = "_switch_api" =>
        /\ call_args.current_api_key = call_args.api_keys[call_args.api_index + 1]
        /\ call_args.current_api_number = call_args.api_index + 1
        /\ call_pc = "returned" =>
              LET before == call_result[1].before
                  n      == Len(before.api_keys)
              IN  IF n >= 2
                  THEN /\ call_result[1].ret = TRUE
                       /\ call_args.api_keys = before.api_keys
                       /\ call_args.api_index = (before.api_index + 1) % n
                       /\ call_args.backup_api_number = before.current_api_number
                  ELSE /\ call_result[1].ret = FALSE
                       /\ call_args = before

\* a switch from the last of three keys back to the first
C26_Witness ==
    /\ call_args.fn = "_switch_api" /\ call_pc = "returned"
    /\ call_result[1].ret = TRUE
    /\ Len(call_args.api_keys) >= 3
    /\ call_result[1].before.api_index = Len(call_args.api_keys) - 1
    /\ call_args.api_index = 0
    /\ call_args.backup_api_number = Len(call_args.api_keys)

-----------------------------------------------------------------------------
(* Claims about split_segments *)

\* the words of a sequence of segments, in order
AllWords(segs) == Concat([k \in DOMAIN segs |-> segs[k].words])

\* the width split_segments has summed for the words ws
WidthOf(ws) == SumSeq([k \in DOMAIN ws |-> string_width(ws[k].word \o <<" ">>)])

\* the segment ws may take the word w though the width is reached
TakesAnyway(ws, w) ==
    LET n == Len(ws)
    IN  \/ n = 0
        \/ is_punctuation_end(w.word) /\ ~is_punctuation_end(ws[n].word)
        \/ n >= 2 /\ Len(ws[n].word) <= 3 /\ Len(ws[n - 1].word) > 3

\* the words ws end an input segment
EndsInput(ws) ==
    \E s \in DOMAIN call_args.segments :
        LET iw == call_args.segments[s].words
        IN  iw # <<>> /\ iw[Len(iw)] = ws[Len(ws)]

\* C27: split_segments puts every word of every input segment into exactly
\* one output segment and keeps the word order; every output segment has at
\* least one word; a segment is closed before a further word of its input
\* segment only when that word would reach max_width_px and none of the
\* exceptions (empty segment, isolated sentence-final word, short-word
\* logical break) applies.
C27_WordsKeptAndClosedAtWidth ==
    (call_pc = "returned" /\ call_args.fn = "split_segments") =>
        /\ AllWords(call_result) = AllWords(call_args.segments)
        /\ \A k \in DOMAIN call_result : call_result[k].words # <<>>
        /\ \A k \in 1..(Len(call_result) - 1) :
              LET ws == call_result[k].words
                  w  == call_result[k + 1].words[1]
              IN  \/ EndsInput(ws)
                  \/ /\ WidthOf(ws) + string_width(w.word \o <<" ">>)
                            >= call_args.max_width_px
                     /\ ~TakesAnyway(ws, w)

\* an input segment split at the width after one of the exceptions took a
\* word past the width, with a second input segment after it
C27_Witness ==
    /\ call_pc = "returned" /\ call_args.fn = "split_segments"
    /\ Len(call_args.segments) = 2
    /\ Len(call_result) >= 3
    /\ ~EndsInput(call_result[1].words)
    /\ WidthOf(call_result[1].words) >= call_args.max_width_px

====
